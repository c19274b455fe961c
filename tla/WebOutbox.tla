------------------------------ MODULE WebOutbox ------------------------------
(***************************************************************************)
(* The requests of the web application that change something, and the      *)
(* outbox in IndexedDB that keeps those the network has failed.            *)
(*                                                                         *)
(* All tabs of a browser share the outbox; each replays it when it comes   *)
(* online, and a tab that comes online twice replays it twice at once.     *)
(* A replay works on the list it has read at its start, one request after  *)
(* another; the model lets it take them in any order, as the keys of       *)
(* requests of one millisecond are random.                                 *)
(***************************************************************************)
EXTENDS Naturals

CONSTANTS
    Requests,       \* mutations the user asks for
    Replays,        \* replays in progress at once, in any tabs
    MaxWebFaults    \* bound: how often a replay is cut off after an effect

ASSUME WebAssumption == MaxWebFaults \in Nat

VARIABLES
    call,          \* where the fetch of each request stands
    outbox,        \* the requests in IndexedDB
    replay,        \* what each replay has still to send, and what it is sending
    expired,       \* requests in the outbox whose Authorization header is too old
    sent,          \* how often the server has carried out each request
    webDisturbed,  \* history: see Delivery
    webFaults

webVars == <<call, outbox, replay, expired, sent, webDisturbed, webFaults>>

Call == {"none", "flight", "executed", "done", "failed", "queued"}
NoReplay == [step |-> "idle", todo |-> {}]
Replaying == [step : {"next"}, todo : SUBSET Requests]
             \cup [step : {"sending", "executed"}, todo : SUBSET Requests, of : Requests]

WebTypeOK ==
    /\ call \in [Requests -> Call]
    /\ outbox \subseteq Requests
    /\ replay \in [Replays -> Replaying \cup {NoReplay}]
    /\ expired \subseteq Requests
    /\ sent \in [Requests -> Nat]
    /\ webDisturbed \subseteq Requests
    /\ webFaults \in 0 .. MaxWebFaults

WebInit ==
    /\ call = [r \in Requests |-> "none"]
    /\ outbox = {}
    /\ replay = [p \in Replays |-> NoReplay]
    /\ expired = {}
    /\ sent = [r \in Requests |-> 0]
    /\ webDisturbed = {}
    /\ webFaults = 0

-----------------------------------------------------------------------------
(* request(): the fetch itself *)

Calls(r, from, to) ==
    /\ call[r] \in from
    /\ call' = [call EXCEPT ![r] = to]
    /\ UNCHANGED <<replay, expired, webFaults>>

Issue(r) == Calls(r, {"none"}, "flight") /\ UNCHANGED <<outbox, sent, webDisturbed>>

Execute(r) ==
    /\ Calls(r, {"flight"}, "executed")
    /\ sent' = [sent EXCEPT ![r] = @ + 1]
    /\ UNCHANGED <<outbox, webDisturbed>>

Succeed(r) == Calls(r, {"executed"}, "done") /\ UNCHANGED <<outbox, sent, webDisturbed>>

\* The server refuses, or the tab is closed, or IndexedDB does not take the request:
\* it is not in the outbox (in the last case the user is told that it is).
NotQueued(r) ==
    /\ Calls(r, {"flight", "executed"}, "failed")
    /\ UNCHANGED <<outbox, sent, webDisturbed>>

\* A network error, before the server has carried out the request or after.
AddToOutbox(r) ==
    /\ Calls(r, {"flight", "executed"}, "queued")
    /\ outbox' = outbox \cup {r}
    /\ webDisturbed' = IF call[r] = "executed" THEN webDisturbed \cup {r} ELSE webDisturbed
    /\ UNCHANGED sent

-----------------------------------------------------------------------------
(* replayOutbox(): the event "online" in some tab *)

\* What a replay may yet send, or has sent and not removed.
Held(p) == replay[p].todo \cup
           (IF replay[p].step \in {"sending", "executed"} THEN {replay[p].of} ELSE {})

StartReplay(p) ==
    /\ replay[p].step = "idle"
    /\ outbox # {}
    /\ replay' = [replay EXCEPT ![p] = [step |-> "next", todo |-> outbox]]
    /\ webDisturbed' = webDisturbed \cup (outbox \cap UNION {Held(q) : q \in Replays})
    /\ UNCHANGED <<call, outbox, expired, sent, webFaults>>

\* The fetch of a queued request, with the headers it was queued with, whether or
\* not another replay has removed it since.
SendQueued(p, r) ==
    /\ replay[p].step = "next"
    /\ r \in replay[p].todo
    /\ replay' = [replay EXCEPT ![p] =
                    [step |-> "sending", todo |-> replay[p].todo \ {r}, of |-> r]]
    /\ UNCHANGED <<call, outbox, expired, sent, webDisturbed, webFaults>>

ExecuteQueued(p) ==
    /\ replay[p].step = "sending"
    /\ replay[p].of \notin expired
    /\ replay' = [replay EXCEPT ![p].step = "executed"]
    /\ sent' = [sent EXCEPT ![replay[p].of] = @ + 1]
    /\ UNCHANGED <<call, outbox, expired, webDisturbed, webFaults>>

Proceed(p) ==
    LET todo == replay[p].todo IN
    replay' = [replay EXCEPT ![p] =
                 IF todo = {} THEN NoReplay ELSE [step |-> "next", todo |-> todo]]

\* Mutant: whatever the answer, the request is removed.
RemoveAnswered(p) ==
    /\ replay[p].step \in {"sending", "executed"}
    /\ outbox' = outbox \ {replay[p].of}
    /\ Proceed(p)
    /\ UNCHANGED <<call, expired, sent, webDisturbed, webFaults>>

\* res.ok: the request leaves the outbox.
RemoveFromOutbox(p) ==
    /\ replay[p].step = "executed"
    /\ outbox' = outbox \ {replay[p].of}
    /\ Proceed(p)
    /\ UNCHANGED <<call, expired, sent, webDisturbed, webFaults>>

\* A refusal or a network error before the server has carried it out: the request
\* stays, and the replay goes on with the next.
NotSent(p) ==
    /\ replay[p].step = "sending"
    /\ Proceed(p)
    /\ UNCHANGED <<call, outbox, expired, sent, webDisturbed, webFaults>>

DisturbedBy(p) == IF replay[p].step = "executed" THEN {replay[p].of} ELSE {}
WebFault == webFaults < MaxWebFaults /\ webFaults' = webFaults + 1

\* The answer is lost: the request stays although it has taken effect.
AnswerLost(p) ==
    /\ WebFault
    /\ replay[p].step = "executed"
    /\ webDisturbed' = webDisturbed \cup DisturbedBy(p)
    /\ Proceed(p)
    /\ UNCHANGED <<call, outbox, expired, sent>>

\* The tab is closed in the middle of its replay.
CloseTab(p) ==
    /\ WebFault
    /\ replay[p].step # "idle"
    /\ webDisturbed' = webDisturbed \cup DisturbedBy(p)
    /\ replay' = [replay EXCEPT ![p] = NoReplay]
    /\ UNCHANGED <<call, outbox, expired, sent>>

\* The access token in the stored headers runs out; no replay renews it.
Expire(r) ==
    /\ r \in outbox
    /\ expired' = expired \cup {r}
    /\ UNCHANGED <<call, outbox, replay, sent, webDisturbed, webFaults>>

WebCall(r) ==
    Issue(r) \/ Execute(r) \/ Succeed(r) \/ NotQueued(r) \/ AddToOutbox(r) \/ Expire(r)
WebReplay(p) ==
    \/ StartReplay(p) \/ ExecuteQueued(p) \/ RemoveFromOutbox(p) \/ NotSent(p)
    \/ AnswerLost(p) \/ CloseTab(p)
    \/ \E r \in Requests : SendQueued(p, r)

WebNext == (\E r \in Requests : WebCall(r)) \/ (\E p \in Replays : WebReplay(p))

WebSpec == WebInit /\ [][WebNext]_webVars

-----------------------------------------------------------------------------

RequestState == [r \in Requests |->
    CASE call[r] = "none" -> "absent"
      [] call[r] \in {"flight", "executed"} -> "offered"
      [] call[r] = "failed" -> "dropped"
      [] call[r] = "done" -> "done"
      [] OTHER -> IF r \in outbox THEN "held" ELSE "done"]

RequestDelivery == INSTANCE Delivery WITH
    Items <- Requests, Droppable <- {}, state <- RequestState,
    effects <- sent, disturbed <- webDisturbed

\* A request leaves the outbox only after the server has carried it out, and the server
\* carries it out once, unless its answer is lost, its replay is cut off, or two replays
\* have it on their lists at the same time.
RequestIsDelivered == RequestDelivery!Spec
=============================================================================
