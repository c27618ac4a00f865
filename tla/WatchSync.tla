----------------------------- MODULE WatchSync ------------------------------
(***************************************************************************)
(* The fast deployed loop of a front end: tools/console/src/main/webDev.ts *)
(* for one service, with the switchable cloud of main/aws.ts.              *)
(*                                                                         *)
(* A sync is one call of startWatchSync() that found its bucket; it is     *)
(* named by its call.  The module-level map `active' holds one sync; the   *)
(* watchers, timers and uploads of every call ever made go through it.     *)
(* An upload puts the files of bin/ one by one, reading each as it goes.   *)
(***************************************************************************)
EXTENDS Naturals, FiniteSets

CONSTANTS Files,        \* number of files vite writes
          MaxCalls,     \* bound on the calls of startWatchSync()
          MaxBuilds,    \* bound on the builds vite finishes
          MaxUploads,   \* bound on the uploads
          Clouds        \* what the user switches between: "localstack", "aws"

ASSUME WatchBoundsAssumption == {Files, MaxCalls, MaxBuilds, MaxUploads} \subseteq Nat \ {0}
ASSUME CloudsAssumption == Clouds \subseteq {"localstack", "aws"}

File == 1..Files
Call == 1..MaxCalls
Upload == 1..MaxUploads
NoSync == 0
NoBin  == 0       \* bin/ does not exist: nothing has been built yet

VARIABLES cloud,      \* the cloud the clients are built for
          call,       \* "unborn", "looking" for the bucket, "syncing" or "over"
          active,     \* the sync in the map, or NoSync
          watching,   \* the calls whose file watcher is open
          told,       \* the watchers with an undelivered change event
          timer,      \* the syncs with a debounce timer armed
          busy,       \* the syncs with the busy flag set
          bin,        \* the last build vite has written, or NoBin
          bucket,     \* the build each file in the bucket is of
          next,       \* of each upload: the file it is putting, or NoSync
          body,       \* the build that file was read from
          to,         \* the cloud its client was built for
          uploads,    \* uploads started
          dropped,    \* a sync that was due was skipped and none begun since
          failed      \* the last upload to end reported an error

syncVars   == <<call, active, watching, told, timer, busy>>
uploadVars == <<next, body, to, uploads>>
watchVars == <<cloud, syncVars, bin, bucket, uploadVars, dropped, failed>>

InFlight == {u \in Upload : next[u] # NoSync}

WInit ==
  /\ cloud = "localstack"
  /\ call = [c \in Call |-> "unborn"]
  /\ active = NoSync
  /\ watching = {} /\ told = {} /\ timer = {} /\ busy = {}
  /\ bin \in {NoBin, 1}
  /\ bucket = [f \in File |-> 0]
  /\ next = [u \in Upload |-> NoSync]
  /\ body = [u \in Upload |-> 0]
  /\ to   = [u \in Upload |-> "localstack"]
  /\ uploads = 0
  /\ dropped = FALSE /\ failed = FALSE

-----------------------------------------------------------------------------
\* Variant: doSync() looks at neither the map nor the busy flag.
SyncBlindly(s, flags) ==
  /\ bin # NoBin /\ uploads < MaxUploads
  /\ uploads' = uploads + 1
  /\ next' = [next EXCEPT ![uploads'] = 1]
  /\ body' = [body EXCEPT ![uploads'] = bin]
  /\ to'   = [to   EXCEPT ![uploads'] = cloud]
  /\ busy' = flags \cup ({s} \ {NoSync}) /\ dropped' = FALSE

\* doSync() with s in the map and the busy flags given: nothing without a sync or
\* a bin/; skipped while it is busy; otherwise an upload begins and reads its
\* first file.
DoSync(s, flags) ==
  \/ /\ s = NoSync \/ (s \notin flags /\ bin = NoBin)
     /\ UNCHANGED <<uploadVars, dropped>> /\ busy' = flags
  \/ s \in flags /\ dropped' = TRUE /\ busy' = flags /\ UNCHANGED uploadVars
  \/ /\ s # NoSync /\ s \notin flags /\ bin # NoBin /\ uploads < MaxUploads
     /\ uploads' = uploads + 1
     /\ next' = [next EXCEPT ![uploads'] = 1]
     /\ body' = [body EXCEPT ![uploads'] = bin]
     /\ to'   = [to   EXCEPT ![uploads'] = cloud]
     /\ busy' = flags \cup {s} /\ dropped' = FALSE

\* startWatchSync() up to its await: a no-op while a sync is in the map.
Start(c) ==
  /\ call[c] = "unborn" /\ \A d \in Call : d < c => call[d] # "unborn"
  /\ call' = [call EXCEPT ![c] = IF active = NoSync THEN "looking" ELSE "over"]
  /\ UNCHANGED <<cloud, active, watching, told, timer, busy, bin, bucket, uploadVars, dropped, failed>>

\* siteBucket() answers: without a bucket the call is over; with one it opens
\* its watcher, enters the map over whatever is there, and pushes the build.
Found(c) ==
  /\ call[c] = "looking"
  /\ \/ /\ call' = [call EXCEPT ![c] = "over"]
        /\ UNCHANGED <<active, watching, busy, uploadVars, dropped>>
     \/ /\ call' = [call EXCEPT ![c] = "syncing"]
        /\ watching' = watching \cup {c}
        /\ active' = c
        /\ DoSync(c, busy \ {c})
  /\ UNCHANGED <<cloud, told, timer, bin, bucket, failed>>

\* stopWatchSync(): clear the timer, close the watcher, leave the map.
Stop ==
  /\ active # NoSync
  /\ timer' = timer \ {active}
  /\ watching' = watching \ {active} /\ told' = told \ {active}
  /\ call' = [call EXCEPT ![active] = "over"]
  /\ active' = NoSync
  /\ UNCHANGED <<cloud, busy, bin, bucket, uploadVars, dropped, failed>>

SwitchCloud(t) ==
  /\ cloud' = t
  /\ UNCHANGED <<syncVars, bin, bucket, uploadVars, dropped, failed>>

\* vite finishes a build: every open watcher, of bin/ or of the folder of the
\* service that it appears in, has an event coming.
Build ==
  /\ bin < MaxBuilds
  /\ bin' = bin + 1
  /\ told' = watching
  /\ UNCHANGED <<cloud, call, active, watching, timer, busy, bucket, uploadVars, dropped, failed>>

\* Variant: the event is forgotten when no timer is armed.
NotedLate(c) ==
  /\ c \in told
  /\ told' = told \ {c}
  /\ timer' = timer
  /\ UNCHANGED <<cloud, call, active, watching, busy, bin, bucket, uploadVars, dropped, failed>>

\* A watcher's callback: (re)arm the timer of the sync in the map.
Noted(c) ==
  /\ c \in told
  /\ told' = told \ {c}
  /\ timer' = timer \cup ({active} \ {NoSync})
  /\ UNCHANGED <<cloud, call, active, watching, busy, bin, bucket, uploadVars, dropped, failed>>

\* The 600 ms are over.
Due(s) ==
  /\ s \in timer
  /\ timer' = timer \ {s}
  /\ DoSync(active, busy)
  /\ UNCHANGED <<cloud, call, active, watching, told, bin, bucket, failed>>

\* A put has landed; the next file is read, or the upload is done and its
\* `finally' resets the busy flag of the sync that is in the map by now.
Put(u) ==
  /\ u \in InFlight
  /\ bucket' = IF to[u] = "localstack" THEN [bucket EXCEPT ![next[u]] = body[u]] ELSE bucket
  /\ \/ /\ next[u] < Files
        /\ next' = [next EXCEPT ![u] = @ + 1]
        /\ body' = [body EXCEPT ![u] = bin]
        /\ UNCHANGED <<busy, failed>>
     \/ /\ next[u] = Files
        /\ next' = [next EXCEPT ![u] = NoSync]
        /\ body' = [body EXCEPT ![u] = 0]
        /\ busy' = busy \ {active} /\ failed' = FALSE
  /\ UNCHANGED <<cloud, call, active, watching, told, timer, bin, to, uploads, dropped>>

\* A put fails: the upload ends with a line in the log.
PutFails(u) ==
  /\ u \in InFlight
  /\ next' = [next EXCEPT ![u] = NoSync]
  /\ body' = [body EXCEPT ![u] = 0]
  /\ busy' = busy \ {active} /\ failed' = TRUE
  /\ UNCHANGED <<cloud, call, active, watching, told, timer, bin, bucket, to, uploads, dropped>>

WNext ==
  \/ \E c \in Call : Start(c) \/ Found(c) \/ Noted(c) \/ Due(c)
  \/ Stop \/ Build
  \/ \E t \in Clouds : SwitchCloud(t)
  \/ \E u \in Upload : Put(u) \/ PutFails(u)

WSpec == WInit /\ [][WNext]_watchVars

-----------------------------------------------------------------------------
(* Properties                                                              *)

\* The sync in the map has nothing left to do.
Quiet ==
  /\ active # NoSync /\ active \in watching
  /\ told = {} /\ timer = {} /\ InFlight = {} /\ ~failed

\* With a single sync on LocalStack, a build that is not in the bucket when all
\* is quiet was due while an upload was under way: no event, timer or torn read
\* of a build written during the upload loses one otherwise.
OnlyBusyMissesABuild ==
  Quiet /\ Cardinality({c \in Call : call[c] # "unborn"}) = 1 /\ cloud = "localstack"
        /\ (\A u \in Upload : to[u] = "localstack")
  => dropped \/ \A f \in File : bucket[f] = bin

\* The busy flag keeps uploads of one sync apart: two are under way at once
\* only after a second sync has entered the map.
OverlapNeedsASecondSync ==
  Cardinality(InFlight) > 1 => Cardinality({c \in Call : call[c] \notin {"unborn", "looking"}}) > 1

\* `a file watcher syncs the output straight into the LocalStack S3 site bucket'
\* (webDev.ts:14): when all is quiet the last build is in the bucket.
QuietIsSynced ==
  Quiet /\ cloud = "localstack" /\ (\A u \in Upload : to[u] = "localstack")
  => \A f \in File : bucket[f] = bin

\* `A real account is READ-ONLY' (aws.ts:17): nothing is put into one.
RealAccountIsReadOnly == \A u \in InFlight : to[u] = "localstack"
=============================================================================
