---------------------------- MODULE MCPipeline ----------------------------
(* Small instances of Pipeline for TLC: "app" has every capability, "docs"  *)
(* can be built and nothing else.                                          *)
EXTENDS Pipeline

mcApp   == {"app", "webproxy"}
mcAll   == {"app", "docs", "webproxy"}
mcBoth  == {"app", "docs"}
mcFull  == {"app"}
===========================================================================
