----------------------------- MODULE MCPlatform -----------------------------
(* Small instances of the components of Platform. *)
EXTENDS Platform, TLC

CONSTANTS h1, h2

HandlersAlike == Permutations(Handlers)

Step(after, route, eligible) == [after |-> after, route |-> route, eligible |-> eligible]
PolicyLists ==
  {<<Step(2, "EMAIL", TRUE), Step(0, "SLACK", TRUE), Step(1, "misspelt", TRUE)>>,
   <<Step(1, "EMAIL", FALSE), Step(1, "WEBHOOK", TRUE)>>}

LateInvoice == {[type |-> "INVOICE", status |-> s, late |-> TRUE, boost |-> 0] : s \in {"closed", "other"}}

ShiftWindows == {<<0, 0>>, <<0, 1>>, <<1, 0>>}

OfPages == INSTANCE Pages

AllPages == DOMAIN OfPages!PageTable
=============================================================================
