---------------------------- MODULE MCPromises -----------------------------
(***************************************************************************)
(* Instances of Promises for TLC: programs that call the constructor, the  *)
(* resolving functions and then, deep enough for chains and for reactions  *)
(* that wait in line.  The thenables, finally and the other operations,    *)
(* which lead such a program nowhere, are in the run of MCAsync.           *)
(***************************************************************************)
EXTENDS Promises

ChainScript ==
    \/ Construct
    \/ \E p \in Promises, v \in Values, r \in BOOLEAN : CallResolving(p, v, r)
    \/ \E p \in Promises, f, g \in Handlers : Then(p, f, g)
    \/ NextScript

ChainReturns ==
    \/ EndScript
    \/ \E v \in ScriptValues, threw \in BOOLEAN : HandlerDone(v, threw)

ChainDrain == CallHandler \/ RunHostHandler \/ PassThrough \/ HostCall \/ ThenNotCallable

\* What is left of Next when Operations and Thenables leave out the rest.
ChainNext == ChainScript \/ ChainReturns \/ ChainDrain

ChainSpec == Init /\ [][ChainNext]_vars /\ WF_vars(Drain) /\ WF_vars(ScriptReturns)
=============================================================================
