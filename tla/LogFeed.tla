------------------------------ MODULE LogFeed -------------------------------
(***************************************************************************)
(* The console's log views: the ring of lines main/logStore.ts keeps of    *)
(* every stream, the bridge that carries them to the window, and the view  *)
(* (ConsoleView.tsx, and alike ProxyPanel.tsx and RepoView.tsx) that shows *)
(* one of them.                                                            *)
(*                                                                         *)
(* Calls reach the main process in order and what it sends reaches the     *)
(* window in order, answers included; a handler answers before any other   *)
(* line is logged, so a call and its handler are one step.  A line is the  *)
(* stream it is of and its number there.                                   *)
(***************************************************************************)
EXTENDS Naturals, Sequences

CONSTANTS Streams,     \* a service's stream each
          Ring,        \* RING: lines kept of a stream
          MaxRender,   \* MAX_RENDER: lines a view keeps before it adds one
          MaxLines,    \* bound on the lines of a stream
          MaxMounts    \* bound on the times a view is opened

ASSUME LogAssumption == {Ring, MaxRender, MaxLines, MaxMounts} \subseteq Nat \ {0} /\ MaxRender < Ring

VARIABLES buffer,     \* the lines the store keeps of each stream
          seq,        \* the lines ever logged on each
          channel,    \* what is on its way to the window
          tab,        \* the stream whose tab is open, or NoTab
          mount,      \* the run of the view's effect
          lines       \* the lines the view has

logVars == <<buffer, seq, channel, tab, mount, lines>>

NoTab == "none"

LInit ==
  /\ buffer = [s \in Streams |-> <<>>] /\ seq = [s \in Streams |-> 0]
  /\ channel = <<>> /\ tab = NoTab /\ mount = 0 /\ lines = <<>>

LastOf(q, n) == IF Len(q) > n THEN SubSeq(q, Len(q) - n + 1, Len(q)) ELSE q

Line(s, i)     == [is |-> "line", of |-> s, number |-> i]
History(n, q)  == [is |-> "history", to |-> n, lines |-> q]
Cleared        == [is |-> "cleared"]

\* append(): a chunk of output is split at its newlines, each piece is kept and
\* sent on.
AppendText(s, n) ==
  LET new == [i \in 1..n |-> seq[s] + i]
  IN /\ seq[s] + n <= MaxLines
     /\ seq' = [seq EXCEPT ![s] = @ + n]
     /\ buffer' = [buffer EXCEPT ![s] = LastOf(@ \o new, Ring)]
     /\ channel' = channel \o [i \in 1..n |-> Line(s, new[i])]
     /\ UNCHANGED <<tab, mount, lines>>

\* The effect of the view for the stream s: it asks for the history and from now
\* on receives the lines; what it shows stays until the history is there.
OpenTab(s) ==
  /\ mount < MaxMounts /\ s # tab
  /\ tab' = s /\ mount' = mount + 1
  /\ channel' = Append(channel, History(mount', buffer[s]))
  /\ UNCHANGED <<buffer, seq, lines>>

\* A tab that shows no log: the effect is undone and none takes its place.
LeaveTab ==
  /\ tab # NoTab /\ tab' = NoTab
  /\ UNCHANGED <<buffer, seq, channel, mount, lines>>

\* Variant: the view empties itself without waiting for the store's answer.
ClearAtOnce ==
  /\ tab # NoTab
  /\ buffer' = [buffer EXCEPT ![tab] = <<>>] /\ lines' = <<>>
  /\ UNCHANGED <<seq, channel, tab, mount>>

\* The clear button: the store forgets the stream's lines, and the view its own
\* once the store has answered.
ClearLog ==
  /\ tab # NoTab
  /\ buffer' = [buffer EXCEPT ![tab] = <<>>]
  /\ channel' = Append(channel, Cleared)
  /\ UNCHANGED <<seq, tab, mount, lines>>

\* The window takes what comes next: a line of the stream shown is added, the
\* history the effect still waits for replaces what is shown, and the answer to
\* a clear empties it whatever it shows by then.
Receive ==
  /\ channel # <<>> /\ channel' = Tail(channel)
  /\ LET msg == Head(channel)
     IN lines' = CASE msg.is = "cleared" -> <<>>
                   [] msg.is = "history" -> IF msg.to = mount /\ tab # NoTab THEN msg.lines ELSE lines
                   [] msg.is = "line"    -> IF msg.of # tab THEN lines
                                            ELSE IF Len(lines) > MaxRender
                                                 THEN Append(LastOf(lines, MaxRender), msg.number)
                                                 ELSE Append(lines, msg.number)
  /\ UNCHANGED <<buffer, seq, tab, mount>>

LNext ==
  \/ \E s \in Streams : (\E n \in 1..2 : AppendText(s, n)) \/ OpenTab(s)
  \/ LeaveTab \/ ClearLog \/ Receive

LSpec == LInit /\ [][LNext]_logVars

\* A view that has received all that was sent shows the end of what the store
\* keeps, and no less than it has room for: nothing twice, nothing of another
\* stream, and no line that was cleared, whatever was logged, cleared and opened
\* while the history was on its way.
ViewIsTheLog ==
  tab # NoTab /\ channel = <<>> =>
    /\ lines = LastOf(buffer[tab], Len(lines))
    /\ Len(lines) >= MaxRender \/ lines = buffer[tab]
=============================================================================
