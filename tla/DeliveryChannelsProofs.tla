----------------------- MODULE DeliveryChannelsProofs -----------------------
(***************************************************************************)
(* The five channels into the books implement Delivery, for any number of  *)
(* items, of replays, synchronisations and overlapping requests, of        *)
(* attempts and faults.                                                    *)
(*                                                                         *)
(* A refinement step needs to know that what is sent was not carried out yet, *)
(* and that what is removed was.  Both follow from who holds an item: nobody *)
(* but one replay, synchronisation or request does, unless its delivery is *)
(* disturbed.  So each channel has an inductive invariant that relates the *)
(* row that shows what became of an item, the step each request is at, and *)
(* how often the item has taken effect; it speaks of undisturbed items.    *)
(***************************************************************************)
EXTENDS DeliveryChannels, SequenceTheorems, TLAPS

-----------------------------------------------------------------------------
(* The outbox of the web application *)

Busy(p) == replay[p].step \in {"sending", "executed"}

\* The replay whose answer is on its way.
Sent(p, r) == replay[p].step = "executed" /\ replay[p].of = r

CallFits(r) ==
    /\ call[r] \in {"none", "flight"} => sent[r] = 0
    /\ call[r] = "executed" => sent[r] > 0
    /\ r \in outbox => call[r] = "queued"
    /\ \A p \in Replays : r \in Held(p) => call[r] = "queued"
    /\ call[r] = "queued" /\ r \notin outbox => sent[r] > 0

Quiet(r) ==
    /\ \A p \in Replays : r \in Held(p) => r \in outbox
    /\ \A p, q \in Replays : r \in Held(p) /\ r \in Held(q) => p = q
    /\ r \in outbox /\ (\A p \in Replays : ~Sent(p, r)) => sent[r] = 0

WebInv ==
    /\ WebTypeOK
    /\ \A p \in Replays : Busy(p) => replay[p].of \notin replay[p].todo
    /\ \A p \in Replays : replay[p].step = "executed" => sent[replay[p].of] > 0
    /\ \A r \in Requests : CallFits(r)
    /\ \A r \in Requests \ webDisturbed : Quiet(r)

LEMMA WebInitially == WebInit => WebInv
  BY WebAssumption DEF WebInit, WebInv, WebTypeOK, NoReplay, Busy, Sent, CallFits, Quiet, Held, Call

LEMMA WebPreserved ==
    ASSUME WebInv, [WebNext]_webVars
    PROVE  WebInv'
<1> USE WebAssumption DEF WebInv, WebTypeOK, NoReplay, Replaying, Busy, Sent, CallFits, Quiet, Held, Call
<1>1. ASSUME NEW r \in Requests, Issue(r) \/ Execute(r) \/ Succeed(r) \/ NotQueued(r) PROVE WebInv'
  BY <1>1 DEF Issue, Execute, Succeed, NotQueued, Calls
<1>2. ASSUME NEW r \in Requests, AddToOutbox(r) PROVE WebInv'
  BY <1>2 DEF AddToOutbox, Calls
<1>3. ASSUME NEW r \in Requests, Expire(r) PROVE WebInv'
  BY <1>3 DEF Expire
<1>4. ASSUME NEW p \in Replays, StartReplay(p) PROVE WebInv'
  BY <1>4 DEF StartReplay
<1>5. ASSUME NEW p \in Replays, NEW r \in Requests, SendQueued(p, r) PROVE WebInv'
  BY <1>5 DEF SendQueued
<1>6. ASSUME NEW p \in Replays, ExecuteQueued(p) PROVE WebInv'
  BY <1>6 DEF ExecuteQueued
<1>7. ASSUME NEW p \in Replays, RemoveFromOutbox(p) PROVE WebInv'
  BY <1>7 DEF RemoveFromOutbox, Proceed
<1>8. ASSUME NEW p \in Replays, NotSent(p) PROVE WebInv'
  BY <1>8 DEF NotSent, Proceed
<1>9. ASSUME NEW p \in Replays, AnswerLost(p) PROVE WebInv'
  BY <1>9 DEF AnswerLost, Proceed, DisturbedBy, WebFault
<1>10. ASSUME NEW p \in Replays, CloseTab(p) PROVE WebInv'
  BY <1>10 DEF CloseTab, DisturbedBy, WebFault
<1>11. CASE UNCHANGED webVars
  BY <1>11 DEF webVars
<1>12. QED BY <1>1, <1>2, <1>3, <1>4, <1>5, <1>6, <1>7, <1>8, <1>9, <1>10, <1>11
       DEF WebNext, WebCall, WebReplay

LEMMA WebDelivers ==
    ASSUME WebInv, WebInv', [WebNext]_webVars
    PROVE  [RequestDelivery!Next]_(RequestDelivery!vars)
<1> USE WebAssumption DEF WebInv, WebTypeOK, RequestState, Call, CallFits, Quiet,
        RequestDelivery!Step, RequestDelivery!Rest, RequestDelivery!Hold, RequestDelivery!Settle,
        RequestDelivery!TakeEffect, RequestDelivery!Goes, RequestDelivery!State, RequestDelivery!Drop,
        RequestDelivery!Offer, RequestDelivery!Return
<1>1. CASE UNCHANGED webVars
  BY <1>1 DEF webVars, RequestDelivery!vars
<1>2. SUFFICES ASSUME WebNext PROVE RequestDelivery!Next
  BY <1>1
<1>3. RequestState' \in [Requests -> RequestDelivery!State]
  OBVIOUS
<1>4. sent' \in [Requests -> Nat]
  OBVIOUS
<1>5. webDisturbed \subseteq webDisturbed'
  BY <1>2 DEF WebNext, WebCall, WebReplay, Issue, Execute, Succeed, NotQueued, AddToOutbox, Calls,
     Expire, StartReplay, SendQueued, ExecuteQueued, RemoveFromOutbox, NotSent, AnswerLost, CloseTab
<1>6. ASSUME NEW i \in Requests PROVE RequestDelivery!Step(i)
  <2>1. ASSUME NEW r \in Requests, Issue(r) \/ Execute(r) \/ Succeed(r) \/ NotQueued(r)
        PROVE RequestDelivery!Step(i)
    BY <2>1 DEF Issue, Execute, Succeed, NotQueued, Calls
  <2>2. ASSUME NEW r \in Requests, AddToOutbox(r) PROVE RequestDelivery!Step(i)
    BY <2>2 DEF AddToOutbox, Calls
  <2>3. ASSUME NEW r \in Requests, Expire(r) PROVE RequestDelivery!Step(i)
    BY <2>3 DEF Expire
  <2>4. ASSUME NEW p \in Replays, StartReplay(p) \/ NotSent(p) \/ AnswerLost(p) \/ CloseTab(p)
                                  \/ \E r \in Requests : SendQueued(p, r)
        PROVE RequestDelivery!Step(i)
    BY <2>4 DEF StartReplay, NotSent, AnswerLost, CloseTab, SendQueued
  <2>5. ASSUME NEW p \in Replays, ExecuteQueued(p) PROVE RequestDelivery!Step(i)
    <3>1. replay[p].of \in Held(p) /\ replay[p].of \in Requests
      BY <2>5 DEF ExecuteQueued, Held, Replaying, NoReplay
    <3>2. replay[p].of \in webDisturbed \/ sent[replay[p].of] = 0
      <4>1. CASE replay[p].of \notin webDisturbed
        <5>1. replay[p].of \in outbox
          BY <3>1, <4>1
        <5>2. \A q \in Replays : ~Sent(q, replay[p].of)
          BY <3>1, <4>1, <2>5 DEF ExecuteQueued, Held, Sent
        <5>3. QED BY <3>1, <4>1, <5>1, <5>2
      <4>2. QED BY <4>1
    <3>3. call[replay[p].of] = "queued"
      BY <3>1
    <3>4. QED BY <2>5, <3>1, <3>2, <3>3 DEF ExecuteQueued
  <2>6. ASSUME NEW p \in Replays, RemoveFromOutbox(p) PROVE RequestDelivery!Step(i)
    <3>1. replay[p].of \in Requests
      BY <2>6 DEF RemoveFromOutbox, Replaying, NoReplay
    <3>2. QED BY <2>6, <3>1 DEF RemoveFromOutbox
  <2>7. QED BY <1>2, <2>1, <2>2, <2>3, <2>4, <2>5, <2>6 DEF WebNext, WebCall, WebReplay
<1>7. QED BY <1>3, <1>4, <1>5, <1>6 DEF RequestDelivery!Next

\* For any requests, replays and faults: what the outbox of the web application removes
\* has taken effect, once unless an answer was lost or two replays had it at once.
THEOREM RequestIsDeliveredAlways == ChannelsSpec => RequestIsDelivered
<1>1. ChannelsInit => WebInv /\ RequestDelivery!Init
  BY WebInitially DEF ChannelsInit, WebInit, RequestDelivery!Init, RequestState, RequestDelivery!State
<1>2. [ChannelsNext]_channelVars => [WebNext]_webVars
  BY DEF ChannelsNext, channelVars, Web, Mobile, Provider, Drafting, Scanning
<1>3. WebInv /\ [WebNext]_webVars => WebInv'
  BY WebPreserved
<1>4. WebInv /\ WebInv' /\ [WebNext]_webVars => [RequestDelivery!Next]_(RequestDelivery!vars)
  BY WebDelivers
<1>5. QED BY <1>1, <1>2, <1>3, <1>4, PTL DEF ChannelsSpec, RequestIsDelivered, RequestDelivery!Spec

-----------------------------------------------------------------------------
(* The queue of the mobile application *)

\* The bills that were ever queued; they never return to a form.
Queued == {b \in Bills : bill[b] = "queued"}

\* Any list of queued bills has an oldest, as ahead never goes in a circle.
HasOldest(S) == S # {} => \E b \in S : ahead[b] \cap S = {}

BillFits(b) ==
    /\ bill[b] = "executed" => booked[b] > 0
    /\ bill[b] \in {"form", "flight"} /\ b \notin mobileDisturbed => booked[b] = 0
    /\ ahead[b] \subseteq Queued

SyncFits(s) ==
    IF sync[s].step = "idle" THEN sync[s].todo = {}
    ELSE /\ sync[s].todo \subseteq Queued
         /\ Current(s) \in sync[s].todo
         /\ sync[s].step = "booked" => booked[Current(s)] > 0

BookedBy(s, b) == sync[s].step = "booked" /\ Current(s) = b

Settled(b) ==
    /\ \A s \in Syncs : b \in sync[s].todo => b \in queue
    /\ \A s, t \in Syncs : b \in sync[s].todo /\ b \in sync[t].todo => s = t
    /\ b \in queue /\ (\A s \in Syncs : ~BookedBy(s, b)) => booked[b] = 0

MobileInv ==
    /\ MobileTypeOK
    /\ queue \subseteq Queued
    /\ \A S \in SUBSET Queued : HasOldest(S)
    /\ \A b \in Bills : BillFits(b)
    /\ \A s \in Syncs : SyncFits(s)
    /\ \A b \in Bills \ mobileDisturbed : Settled(b)

LEMMA OldestIsThere ==
    ASSUME NEW S, HasOldest(S), S # {}
    PROVE  Oldest(S) \in S
  BY DEF Oldest, HasOldest

LEMMA StartIsFit ==
    ASSUME MobileInv, NEW S \in SUBSET Queued
    PROVE  /\ StartOn(S) \in Syncing \cup {NoSync}
           /\ StartOn(S).todo = S
           /\ StartOn(S).step \in {"idle", "search", "book"}
           /\ StartOn(S).step = "idle" <=> S = {}
           /\ S # {} => StartOn(S).of \in S
<1>1. S # {} => Oldest(S) \in S
  BY OldestIsThere DEF MobileInv
<1>2. S \subseteq Bills
  BY DEF Queued
<1>3. QED BY <1>1, <1>2 DEF StartOn, NoSync, Syncing

LEMMA MobileInitially == MobileInit => MobileInv
  BY MobileAssumption DEF MobileInit, MobileInv, MobileTypeOK, NoSync, Queued, HasOldest, BillFits, SyncFits,
     Settled, BookedBy

LEMMA SameOldest ==
    ASSUME \A S \in SUBSET Queued : HasOldest(S), UNCHANGED ahead, Queued' = Queued
    PROVE  (\A S \in SUBSET Queued : HasOldest(S))'
<1>1. \A S : HasOldest(S)' = HasOldest(S)
  BY DEF HasOldest
<1>2. QED BY <1>1

LEMMA EnqueuedHasOldest ==
    ASSUME MobileInv, NEW b \in Bills, EnqueueInvoice(b)
    PROVE  (\A S \in SUBSET Queued : HasOldest(S))'
<1>1. /\ Queued' = Queued \cup {b} /\ b \notin Queued
      /\ ahead' = [ahead EXCEPT ![b] = queue] /\ queue \subseteq Queued
      /\ \A c \in Bills : ahead[c] \subseteq Queued
  BY DEF EnqueueInvoice, Moves, Queued, MobileInv, MobileTypeOK, BillFits
<1>2. ahead'[b] = queue /\ \A c \in Bills \ {b} : ahead'[c] = ahead[c]
  BY <1>1 DEF MobileInv, MobileTypeOK
<1>3. SUFFICES ASSUME NEW S \in SUBSET Queued', S # {}
               PROVE  \E c \in S : ahead'[c] \cap S = {}
  BY DEF HasOldest
<1>4. CASE S \subseteq {b}
  BY <1>1, <1>2, <1>3, <1>4
<1>5. CASE ~(S \subseteq {b})
  <2>1. PICK c \in S \ {b} : ahead[c] \cap (S \ {b}) = {}
    <3>1. S \ {b} \in SUBSET Queued /\ S \ {b} # {}
      BY <1>1, <1>5
    <3>2. QED BY <3>1 DEF MobileInv, HasOldest
  <2>2. c \in Bills /\ ahead'[c] = ahead[c] /\ b \notin ahead[c]
    BY <1>1, <1>2 DEF Queued
  <2>3. QED BY <2>1, <2>2
<1>6. QED BY <1>4, <1>5

LEMMA MobilePreserved ==
    ASSUME MobileInv, [MobileNext]_mobileVars
    PROVE  MobileInv'
<1> USE MobileAssumption DEF MobileInv, MobileTypeOK, NoSync, Syncing, Queued, HasOldest, BillFits, SyncFits,
        Settled, BookedBy, Current, MobileFault
<1>1. ASSUME NEW b \in Bills, SubmitOnline(b) \/ BookDirectly(b) \/ BookedDirectly(b) \/ NotBooked(b)
                              \/ AnswerToFormLost(b)
      PROVE MobileInv'
  BY <1>1 DEF SubmitOnline, BookDirectly, BookedDirectly, NotBooked, AnswerToFormLost, Moves
<1>2. ASSUME NEW b \in Bills, EnqueueInvoice(b) PROVE MobileInv'
  <2> USE <1>2 DEF EnqueueInvoice, Moves
  <2>1. MobileTypeOK' /\ queue' \subseteq Queued' /\ Queued \subseteq Queued'
    OBVIOUS
  <2>2. (\A S \in SUBSET Queued : HasOldest(S))'
    BY EnqueuedHasOldest
  <2>3. \A c \in Bills : BillFits(c)'
    OBVIOUS
  <2>4. \A s \in Syncs : SyncFits(s)'
    BY <2>1
  <2>5. \A c \in Bills \ mobileDisturbed' : Settled(c)'
    OBVIOUS
  <2>6. QED BY <2>1, <2>2, <2>3, <2>4, <2>5
<1>3. ASSUME NEW s \in Syncs, Connected(s) PROVE MobileInv'
  BY <1>3, StartIsFit DEF Connected, SyncAt
<1>4. CASE ConnectedEmpty \/ Disconnected
  <2> USE <1>4 DEF ConnectedEmpty, Disconnected
  <2>1. MobileTypeOK' /\ queue' \subseteq Queued' /\ Queued' = Queued
    <3>1. MaxOutages \in Nat
      OBVIOUS
    <3>2. CASE ConnectedEmpty
      BY <3>2
    <3>3. CASE Disconnected
      <4>1. outages' \in 0 .. MaxOutages
        BY <3>1, <3>3
      <4>2. UNCHANGED <<bill, queue, ahead, sync, booked, mobileDisturbed, mobileFaults>> /\ online' = FALSE
        BY <3>3
      <4>3. QED BY <4>1, <4>2
    <3>4. QED BY <3>2, <3>3
  <2>2. (\A S \in SUBSET Queued : HasOldest(S))'
    BY <2>1, SameOldest
  <2>3. \A c \in Bills : BillFits(c)'
    OBVIOUS
  <2>4. \A x \in Syncs : SyncFits(x)'
    OBVIOUS
  <2>5. \A c \in Bills \ mobileDisturbed' : Settled(c)'
    OBVIOUS
  <2>6. QED BY <2>1, <2>2, <2>3, <2>4, <2>5
<1>5. ASSUME NEW s \in Syncs, SearchWalkIn(s) \/ CreateWalkIn(s) PROVE MobileInv'
  <2>1. PICK step \in {"customer", "book"} :
           /\ sync[s].step \in {"search", "customer"}
           /\ sync' = [sync EXCEPT ![s].step = step]
           /\ UNCHANGED <<online, bill, queue, ahead, booked, mobileDisturbed, outages, mobileFaults>>
    BY <1>5 DEF SearchWalkIn, CreateWalkIn, SyncAt, Goes
  <2>2. /\ sync'[s] = [sync[s] EXCEPT !.step = step]
        /\ \A x \in Syncs \ {s} : sync'[x] = sync[x]
    BY <2>1
  <2>3. /\ sync'[s] \in Syncing
        /\ sync'[s].todo = sync[s].todo /\ sync'[s].of = sync[s].of /\ sync'[s].step = step
    BY <2>1, <2>2
  <2>4. sync' \in [Syncs -> Syncing \cup {NoSync}]
    BY <2>1, <2>2, <2>3
  <2>5. MobileTypeOK' /\ queue' \subseteq Queued' /\ Queued' = Queued
    BY <2>1, <2>4
  <2>6. (\A S \in SUBSET Queued : HasOldest(S))'
    BY <2>1, <2>5, SameOldest
  <2>7. \A c \in Bills : BillFits(c)'
    BY <2>1
  <2>8. \A x \in Syncs : SyncFits(x)'
    BY <2>1, <2>2, <2>3
  <2>9. \A c \in Bills \ mobileDisturbed' : Settled(c)'
    BY <2>1, <2>2, <2>3
  <2>10. QED BY <2>5, <2>6, <2>7, <2>8, <2>9
<1>6. ASSUME NEW s \in Syncs, BookQueued(s) PROVE MobileInv'
  BY <1>6 DEF BookQueued, SyncAt, Goes
<1>7. ASSUME NEW s \in Syncs, RemoveFromQueue(s) PROVE MobileInv'
  <2> DEFINE rest == sync[s].todo \ {sync[s].of}
  <2>0. /\ sync[s].step = "booked" /\ rest \in SUBSET Queued
        /\ sync' = [sync EXCEPT ![s] = StartOn(rest)]
        /\ queue' = queue \ {sync[s].of}
        /\ UNCHANGED <<online, bill, ahead, booked, mobileDisturbed, outages, mobileFaults>>
    BY <1>7 DEF RemoveFromQueue, SyncAt
  <2>1. /\ sync'[s] = StartOn(rest)
        /\ \A x \in Syncs \ {s} : sync'[x] = sync[x]
    BY <2>0
  <2>2. /\ StartOn(rest) \in Syncing \cup {NoSync}
        /\ StartOn(rest).todo = rest
        /\ StartOn(rest).step \in {"idle", "search", "book"}
        /\ StartOn(rest).step = "idle" <=> rest = {}
        /\ rest # {} => StartOn(rest).of \in rest
    BY <2>0, StartIsFit
  <2>3. sync' \in [Syncs -> Syncing \cup {NoSync}]
    BY <2>0, <2>2
  <2>4. MobileTypeOK' /\ queue' \subseteq Queued' /\ Queued' = Queued
    BY <2>0, <2>3
  <2>5. (\A S \in SUBSET Queued : HasOldest(S))'
    BY <2>0, <2>4, SameOldest
  <2>6. \A c \in Bills : BillFits(c)'
    BY <2>0
  <2>7. ASSUME NEW x \in Syncs PROVE SyncFits(x)'
    <3>1. CASE x = s
      BY <3>1, <2>0, <2>1, <2>2, <2>4
    <3>2. CASE x # s
      BY <3>2, <2>0, <2>1, <2>4
    <3>3. QED BY <3>1, <3>2
  <2>8. ASSUME NEW c \in Bills \ mobileDisturbed' PROVE Settled(c)'
    <3>1. Settled(c)
      BY <2>0
    <3>2. \A x \in Syncs : sync'[x].todo \subseteq sync[x].todo
      BY <2>1, <2>2
    <3>3. c # sync[s].of => \A x \in Syncs : BookedBy(x, c) => BookedBy(x, c)'
      BY <2>0, <2>1
    <3>4. \A x \in Syncs : BookedBy(x, c) /\ x # s => BookedBy(x, c)'
      BY <2>1
    <3>5. \A x \in Syncs : c = sync[s].of => c \notin sync'[x].todo
      <4>1. TAKE x \in Syncs
      <4>2. HAVE c = sync[s].of
      <4>3. c \in sync[s].todo
        BY <2>0, <4>2
      <4>4. CASE x = s
        <5>1. c \notin rest
          BY <4>2
        <5>2. sync'[x].todo = rest
          BY <2>1, <2>2, <4>4, Zenon
        <5>3. QED BY <5>1, <5>2, Zenon
      <4>5. CASE x # s
        BY <2>1, <3>1, <4>3, <4>5
      <4>6. QED BY <4>4, <4>5
    <3>6. QED BY <2>0, <3>1, <3>2, <3>3, <3>4, <3>5
  <2>9. QED BY <2>4, <2>5, <2>6, <2>7, <2>8
<1>8. ASSUME NEW s \in Syncs, SyncBreaks(s) PROVE MobileInv'
  BY <1>8 DEF SyncBreaks, SyncAt
<1>9. CASE AppEnds
  <2> USE <1>9 DEF AppEnds, SyncAt
  <2>1. MobileTypeOK' /\ queue' \subseteq Queued' /\ Queued' = Queued
    OBVIOUS
  <2>2. (\A S \in SUBSET Queued : HasOldest(S))'
    BY <2>1, SameOldest
  <2>3. \A c \in Bills : BillFits(c)'
    OBVIOUS
  <2>4. \A x \in Syncs : SyncFits(x)'
    OBVIOUS
  <2>5. \A c \in Bills \ mobileDisturbed' : Settled(c)'
    OBVIOUS
  <2>6. QED BY <2>1, <2>2, <2>3, <2>4, <2>5
<1>10. CASE UNCHANGED mobileVars
  BY <1>10 DEF mobileVars
<1>11. QED BY <1>1, <1>2, <1>3, <1>4, <1>5, <1>6, <1>7, <1>8, <1>9, <1>10
       DEF MobileNext, Form, Synchronise

LEMMA MobileDelivers ==
    ASSUME MobileInv, MobileInv', [MobileNext]_mobileVars
    PROVE  [BillDelivery!Next]_(BillDelivery!vars)
<1> USE MobileAssumption DEF MobileInv, MobileTypeOK, BillState, BillFits, Queued,
        BillDelivery!Step, BillDelivery!Rest, BillDelivery!Hold, BillDelivery!Settle,
        BillDelivery!TakeEffect, BillDelivery!Goes, BillDelivery!State, BillDelivery!Drop,
        BillDelivery!Offer, BillDelivery!Return
<1>1. CASE UNCHANGED mobileVars
  BY <1>1 DEF mobileVars, BillDelivery!vars
<1>2. SUFFICES ASSUME MobileNext PROVE BillDelivery!Next
  BY <1>1
<1>3. BillState' \in [Bills -> BillDelivery!State]
  OBVIOUS
<1>4. booked' \in [Bills -> Nat]
  OBVIOUS
<1>5. mobileDisturbed \subseteq mobileDisturbed'
  BY <1>2 DEF MobileNext, Form, Synchronise, SubmitOnline, BookDirectly, BookedDirectly, NotBooked,
     AnswerToFormLost, EnqueueInvoice, Connected, ConnectedEmpty, Disconnected, SearchWalkIn,
     CreateWalkIn, BookQueued, RemoveFromQueue, SyncBreaks, AppEnds
<1>6. ASSUME NEW i \in Bills PROVE BillDelivery!Step(i)
  <2>1. ASSUME NEW b \in Bills, SubmitOnline(b) \/ BookDirectly(b) \/ BookedDirectly(b) \/ NotBooked(b)
                                \/ AnswerToFormLost(b)
        PROVE BillDelivery!Step(i)
    BY <2>1 DEF SubmitOnline, BookDirectly, BookedDirectly, NotBooked, AnswerToFormLost, Moves
  <2>2. ASSUME NEW b \in Bills, EnqueueInvoice(b) PROVE BillDelivery!Step(i)
    BY <2>2 DEF EnqueueInvoice, Moves
  <2>3. ASSUME NEW s \in Syncs, Connected(s) \/ SearchWalkIn(s) \/ CreateWalkIn(s) \/ SyncBreaks(s)
        PROVE BillDelivery!Step(i)
    BY <2>3 DEF Connected, SearchWalkIn, CreateWalkIn, SyncBreaks
  <2>4. CASE ConnectedEmpty \/ Disconnected
    BY <2>4 DEF ConnectedEmpty, Disconnected
  <2>5. ASSUME NEW s \in Syncs, BookQueued(s) PROVE BillDelivery!Step(i)
    <3>1. Current(s) \in sync[s].todo /\ Current(s) \in Bills /\ bill[Current(s)] = "queued"
      BY <2>5 DEF BookQueued, SyncAt, SyncFits
    <3>2. Current(s) \in mobileDisturbed \/ booked[Current(s)] = 0
      <4>1. CASE Current(s) \notin mobileDisturbed
        <5>1. \A t \in Syncs : ~BookedBy(t, Current(s))
          BY <3>1, <4>1, <2>5 DEF BookQueued, SyncAt, SyncFits, Settled, BookedBy
        <5>2. QED BY <3>1, <4>1, <5>1 DEF Settled
      <4>2. QED BY <4>1
    <3>3. QED BY <2>5, <3>1, <3>2 DEF BookQueued
  <2>6. ASSUME NEW s \in Syncs, RemoveFromQueue(s) PROVE BillDelivery!Step(i)
    <3>1. booked[Current(s)] > 0
      BY <2>6 DEF RemoveFromQueue, SyncAt, SyncFits
    <3>2. QED BY <2>6, <3>1 DEF RemoveFromQueue
  <2>7. CASE AppEnds
    BY <2>7 DEF AppEnds
  <2>8. QED BY <1>2, <2>1, <2>2, <2>3, <2>4, <2>5, <2>6, <2>7 DEF MobileNext, Form, Synchronise
<1>7. QED BY <1>3, <1>4, <1>5, <1>6 DEF BillDelivery!Next

\* The same for the bills the mobile application queues and synchronises, for any number of
\* bills and of synchronisations that run at the same time.
THEOREM BillIsDeliveredAlways == ChannelsSpec => BillIsDelivered
<1>1. ChannelsInit => MobileInv /\ BillDelivery!Init
  BY MobileInitially DEF ChannelsInit, MobileInit, BillDelivery!Init, BillState, BillDelivery!State
<1>2. [ChannelsNext]_channelVars => [MobileNext]_mobileVars
  BY DEF ChannelsNext, channelVars, Web, Mobile, Provider, Drafting, Scanning
<1>3. MobileInv /\ [MobileNext]_mobileVars => MobileInv'
  BY MobilePreserved
<1>4. MobileInv /\ MobileInv' /\ [MobileNext]_mobileVars => [BillDelivery!Next]_(BillDelivery!vars)
  BY MobileDelivers
<1>5. QED BY <1>1, <1>2, <1>3, <1>4, PTL DEF ChannelsSpec, BillIsDelivered, BillDelivery!Spec

-----------------------------------------------------------------------------
(* The notices of a payment provider *)

Untouched(r) == payments[r] = 0 /\ \A h \in Handlers : ~At(h, "idle") => handler[h].ref # r

UpiInv ==
    /\ UpiTypeOK
    /\ \A r \in Refs : notice[r] = "unpaid" => Untouched(r)
    /\ \A h \in Handlers :
          handler[h].step = "recorded" \/ (handler[h].step = "checked" /\ handler[h].dup) =>
             (handler[h].ref \in Matched => payments[handler[h].ref] > 0)
    /\ \A h \in Handlers : At(h, "checked") /\ ~handler[h].dup /\ handler[h].ref \notin overlapped =>
          /\ payments[handler[h].ref] = 0
          /\ \A x \in AboutToRecord(handler[h].ref) : x = h

LEMMA UpiInitially == UpiInit => UpiInv
  BY DEF UpiInit, UpiInv, UpiTypeOK, Untouched, At, UpiIdle, AboutToRecord, Processing

LEMMA UpiPreserved ==
    ASSUME UpiInv, [UpiNext]_upiVars
    PROVE  UpiInv'
<1> USE UpiAssumption DEF UpiInv, UpiTypeOK, Untouched, At, UpiIdle, AboutToRecord, Processing
<1>1. ASSUME NEW r \in Refs, CustomerPays(r) PROVE UpiInv'
  BY <1>1 DEF CustomerPays
<1>2. ASSUME NEW r \in Refs, NEW h \in Handlers, StoreEvent(h, r) PROVE UpiInv'
  BY <1>2 DEF StoreEvent
<1>3. ASSUME NEW h \in Handlers, CheckDuplicate(h) PROVE UpiInv'
  <2> USE <1>3 DEF CheckDuplicate
  <2>a. handler[h] \in Processing
    BY handler[h] \in {UpiIdle} \cup Processing
  <2>b. handler[h].ref \in Refs /\ (payments[handler[h].ref] > 0) \in BOOLEAN
    BY <2>a
  <2>0. /\ handler[h] \in Processing
        /\ handler' = [handler EXCEPT ![h] = [step |-> "checked", ref |-> handler[h].ref,
                                                dup |-> payments[handler[h].ref] > 0]]
    BY <2>a
  <2>c. /\ handler'[h].step = "checked" /\ handler'[h].ref = handler[h].ref
        /\ handler'[h].dup <=> payments[handler[h].ref] > 0
    <3>1. handler'[h] = [step |-> "checked", ref |-> handler[h].ref,
                         dup |-> payments[handler[h].ref] > 0]
      BY <2>0
    <3>2. QED BY <3>1, Zenon
  <2>1. UpiTypeOK'
    BY <2>0, <2>b
  <2>2. \A r \in Refs : notice'[r] = "unpaid" => Untouched(r)'
    BY <2>0
  <2>4. \A x \in Handlers \ {h} : handler'[x] = handler[x]
    OBVIOUS
  <2>3. \A x \in Handlers :
          handler'[x].step = "recorded" \/ (handler'[x].step = "checked" /\ handler'[x].dup) =>
             (handler'[x].ref \in Matched => payments'[handler'[x].ref] > 0)
    BY <2>c, <2>4, payments' = payments
  <2>5. handler[h].ref \in Refs /\ handler'[h].ref = handler[h].ref
    BY <2>c
  <2>6. ASSUME NEW x \in Handlers, At(x, "checked")', ~handler'[x].dup, handler'[x].ref \notin overlapped'
        PROVE  payments'[handler'[x].ref] = 0 /\ \A y \in AboutToRecord(handler[x].ref)' : y = x
    <3>1. CASE x = h
      <4>1. payments[handler[h].ref] = 0 /\ AboutToRecord(handler[h].ref) = {}
        BY <3>1, <2>c, <2>5, <2>6
      <4>2. QED BY <3>1, <4>1, <2>4, <2>c, payments' = payments
    <3>2. CASE x # h
      <4>1. /\ handler'[x] = handler[x] /\ payments[handler[x].ref] = 0
            /\ \A y \in AboutToRecord(handler[x].ref) : y = x
            /\ x \in AboutToRecord(handler[x].ref)
        BY <3>2, <2>4, <2>6
      <4>2. handler[h].ref # handler[x].ref
        BY <4>1, <2>6
      <4>3. QED BY <4>1, <4>2, <2>4, <2>c, payments' = payments
    <3>3. QED BY <3>1, <3>2
  <2>7. QED BY <2>1, <2>2, <2>3, <2>4, <2>6
<1>4. ASSUME NEW h \in Handlers, RecordUnlessDuplicate(h) PROVE UpiInv'
  <2> USE <1>4 DEF RecordUnlessDuplicate
  <2>1. UpiTypeOK'
    OBVIOUS
  <2>2. \A r \in Refs : notice'[r] = "unpaid" => Untouched(r)'
    OBVIOUS
  <2>3. \A x \in Handlers :
          handler'[x].step = "recorded" \/ (handler'[x].step = "checked" /\ handler'[x].dup) =>
             (handler'[x].ref \in Matched => payments'[handler'[x].ref] > 0)
    OBVIOUS
  <2>4. \A x \in Handlers \ {h} : handler'[x] = handler[x]
    OBVIOUS
  <2>5. ASSUME NEW x \in Handlers, At(x, "checked")', ~handler'[x].dup, handler'[x].ref \notin overlapped'
        PROVE  payments'[handler'[x].ref] = 0 /\ \A y \in AboutToRecord(handler[x].ref)' : y = x
    <3>1. x # h /\ handler'[x] = handler[x] /\ handler[x].ref \in Refs
      BY <2>4, <2>5
    <3>2. handler[h].dup \/ handler[h].ref # handler[x].ref
      BY <3>1, <2>5
    <3>3. payments'[handler[x].ref] = payments[handler[x].ref]
      BY <3>1, <3>2
    <3>4. AboutToRecord(handler[x].ref)' \subseteq AboutToRecord(handler[x].ref)
      BY <2>4
    <3>5. QED BY <3>1, <3>3, <3>4, <2>5
  <2>6. QED BY <2>1, <2>2, <2>3, <2>4, <2>5
<1>5. ASSUME NEW h \in Handlers, AnswerNotice(h) PROVE UpiInv'
  BY <1>5 DEF AnswerNotice
<1>6. ASSUME NEW h \in Handlers, NoticeFails(h) PROVE UpiInv'
  BY <1>6 DEF NoticeFails
<1>7. CASE UNCHANGED upiVars
  BY <1>7 DEF upiVars
<1>8. QED BY <1>1, <1>2, <1>3, <1>4, <1>5, <1>6, <1>7 DEF UpiNext

LEMMA UpiDelivers ==
    ASSUME UpiInv, UpiInv', [UpiNext]_upiVars
    PROVE  [NoticeDelivery!Next]_(NoticeDelivery!vars)
<1> USE UpiAssumption DEF UpiInv, UpiTypeOK, At, UpiIdle, Processing, NoticeState,
        NoticeDelivery!Step, NoticeDelivery!Rest, NoticeDelivery!Hold, NoticeDelivery!Settle,
        NoticeDelivery!TakeEffect, NoticeDelivery!Goes, NoticeDelivery!State
<1>1. CASE UNCHANGED upiVars
  BY <1>1 DEF upiVars, NoticeDelivery!vars
<1>2. SUFFICES ASSUME UpiNext PROVE NoticeDelivery!Next
  BY <1>1
<1>3. NoticeState' \in [Matched -> NoticeDelivery!State]
  OBVIOUS
<1>4. [r \in Matched |-> payments'[r]] \in [Matched -> Nat]
  OBVIOUS
<1>5. overlapped \subseteq overlapped'
  BY <1>2 DEF UpiNext, CustomerPays, StoreEvent, CheckDuplicate, RecordUnlessDuplicate,
              AnswerNotice, NoticeFails
<1>6. ASSUME NEW i \in Matched PROVE NoticeDelivery!Step(i)
  <2>1. ASSUME NEW r \in Refs, CustomerPays(r) PROVE NoticeDelivery!Step(i)
    BY <2>1 DEF CustomerPays
  <2>2. ASSUME NEW r \in Refs, NEW h \in Handlers, StoreEvent(h, r) PROVE NoticeDelivery!Step(i)
    BY <2>2 DEF StoreEvent
  <2>3. ASSUME NEW h \in Handlers, CheckDuplicate(h) PROVE NoticeDelivery!Step(i)
    BY <2>3 DEF CheckDuplicate
  <2>4. ASSUME NEW h \in Handlers, RecordUnlessDuplicate(h) PROVE NoticeDelivery!Step(i)
    BY <2>4 DEF RecordUnlessDuplicate, Untouched
  <2>5. ASSUME NEW h \in Handlers, AnswerNotice(h) PROVE NoticeDelivery!Step(i)
    BY <2>5 DEF AnswerNotice, Untouched
  <2>6. ASSUME NEW h \in Handlers, NoticeFails(h) PROVE NoticeDelivery!Step(i)
    BY <2>6 DEF NoticeFails
  <2>7. QED BY <1>2, <2>1, <2>2, <2>3, <2>4, <2>5, <2>6 DEF UpiNext
<1>7. QED BY <1>3, <1>4, <1>5, <1>6 DEF NoticeDelivery!Next

\* For any payments and any number of deliveries at once: the webhook answers a notice only
\* after its payment is recorded, once unless two deliveries were checked before either.
THEOREM NoticeIsDeliveredAlways == ChannelsSpec => NoticeIsDelivered
<1>1. ChannelsInit => UpiInv /\ NoticeDelivery!Init
  BY UpiInitially, UpiAssumption DEF ChannelsInit, UpiInit, NoticeDelivery!Init, NoticeState, NoticeDelivery!State
<1>2. [ChannelsNext]_channelVars => [UpiNext]_upiVars
  BY DEF ChannelsNext, channelVars, Web, Mobile, Provider, Drafting, Scanning
<1>3. UpiInv /\ [UpiNext]_upiVars => UpiInv'
  BY UpiPreserved
<1>4. UpiInv /\ UpiInv' /\ [UpiNext]_upiVars => [NoticeDelivery!Next]_(NoticeDelivery!vars)
  BY UpiDelivers
<1>5. QED BY <1>1, <1>2, <1>3, <1>4, PTL DEF ChannelsSpec, NoticeIsDelivered, NoticeDelivery!Spec

-----------------------------------------------------------------------------
(* Drafts *)

\* What the changes of a draft nothing has disturbed are, by its status and its requests.
Undisturbed(d) ==
    /\ \A r \in Confirming(d) :
          /\ draft[d].status = "pending"
          /\ draft[d].data = reviewing[r].data
          /\ \A q \in Open(d) : q = r
    /\ draft[d].status = "confirmed" =>
          /\ changes[d] = <<draft[d].data>>
          /\ \A r \in Open(d) : reviewing[r].op = "discard"
    /\ \A r \in Open(d) : reviewing[r].op = "mark" => changes[d] = <<reviewing[r].data>>
    /\ draft[d].status = "pending" /\ (\A r \in Open(d) : reviewing[r].op # "mark") =>
          changes[d] = <<>>

DraftsInv ==
    /\ DraftsTypeOK
    /\ \A d \in DraftIds : draft[d].status = "absent" => changes[d] = <<>> /\ Open(d) = {}
    /\ \A d \in DraftIds :
          draft[d].status = "confirmed" \/ (\E r \in Open(d) : reviewing[r].op = "mark") =>
             changes[d] # <<>>
    /\ \A d \in DraftIds \ draftDisturbed : Undisturbed(d)

LEMMA DraftsInitially == DraftsInit => DraftsInv
  BY DraftsAssumption DEF DraftsInit, DraftsInv, DraftsTypeOK, Undisturbed, Open, Confirming,
     NoDraft, NoReview

LEMMA BeginPreserves ==
    ASSUME DraftsInv, NEW r \in DraftRequests, NEW d \in DraftIds,
           NEW op \in {"update", "confirm", "discard"}, NEW x \in Contents,
           Begin(r, d, op, x), draft[d].status # "absent",
           op # "discard" => draft[d].status = "pending",
           op = "confirm" => x = draft[d].data
    PROVE  DraftsInv'
<1> USE DraftsAssumption DEF DraftsInv, DraftsTypeOK, NoDraft, NoReview, DraftRow, Review
<1>1. /\ reviewing' = [reviewing EXCEPT ![r] = [op |-> op, of |-> d, data |-> x]]
      /\ reviewing[r] = NoReview
      /\ draftDisturbed \subseteq draftDisturbed'
      /\ draftDisturbed' \subseteq DraftIds
      /\ UNCHANGED <<draft, changes, draftFaults>>
  BY DEF Begin
<1>2. \A q \in DraftRequests \ {r} : reviewing'[q] = reviewing[q]
  BY <1>1
<1>3. reviewing'[r].op = op /\ reviewing'[r].of = d /\ reviewing'[r].data = x
  BY <1>1
<1>4. DraftsTypeOK'
  BY <1>1
<1>5. Open(d)' = Open(d) \cup {r} /\ r \notin Open(d)
  BY <1>1, <1>2, <1>3 DEF Open
<1>6. \A e \in DraftIds \ {d} : Open(e)' = Open(e) /\ r \notin Open(e)
  BY <1>1, <1>2, <1>3 DEF Open
<1>7. \A e \in DraftIds : draft'[e].status = "absent" => changes'[e] = <<>> /\ Open(e)' = {}
  BY <1>1, <1>5, <1>6
<1>8. \A e \in DraftIds :
          draft'[e].status = "confirmed" \/ (\E q \in Open(e)' : reviewing'[q].op = "mark") =>
             changes'[e] # <<>>
  BY <1>1, <1>2, <1>3, <1>5, <1>6 DEF Open
<1>9. \A e \in (DraftIds \ draftDisturbed') \ {d} : Undisturbed(e)'
  <2> TAKE e \in (DraftIds \ draftDisturbed') \ {d}
  <2>1. Undisturbed(e)
    BY <1>1
  <2>2. \A q \in Open(e) : reviewing'[q] = reviewing[q]
    BY <1>2, <1>6 DEF Open
  <2>3. Confirming(e)' = Confirming(e) /\ Open(e)' = Open(e)
    BY <2>2, <1>6 DEF Confirming
  <2>4. QED BY <2>1, <2>2, <2>3, <1>1 DEF Undisturbed, Confirming
<1>10. ASSUME d \notin draftDisturbed' PROVE Undisturbed(d)'
  <2>1. Confirming(d) = {} /\ (op = "confirm" => Open(d) = {}) /\ Undisturbed(d)
    BY <1>1, <1>10 DEF Begin
  <2>2. \A q \in Open(d) : reviewing'[q] = reviewing[q] /\ q # r
    BY <1>2, <1>5 DEF Open
  <2>3. \A q \in Open(d) : reviewing[q].op \notin {"confirm", "mark"}
    BY <2>1 DEF Confirming
  <2>4. Confirming(d)' = IF op = "confirm" THEN {r} ELSE {}
    BY <1>3, <1>5, <2>2, <2>3 DEF Confirming
  <2>5. QED BY <1>1, <1>3, <1>5, <2>1, <2>2, <2>3, <2>4 DEF Undisturbed
<1>11. QED BY <1>4, <1>7, <1>8, <1>9, <1>10

LEMMA ExecutePreserves ==
    ASSUME DraftsInv, NEW r \in DraftRequests, ExecuteDraft(r)
    PROVE  DraftsInv'
<1> USE DEF DraftsInv
<1>0. PICK d \in DraftIds, x \in Contents :
           reviewing[r] = [op |-> "confirm", of |-> d, data |-> x]
  BY DEF ExecuteDraft, DraftsTypeOK, Review, NoReview
<1>1. /\ reviewing' = [reviewing EXCEPT ![r] = [op |-> "mark", of |-> d, data |-> x]]
      /\ changes' = [changes EXCEPT ![d] = Append(changes[d], x)]
      /\ UNCHANGED <<draft, draftDisturbed, draftFaults>>
  <2>1. [reviewing[r] EXCEPT !.op = "mark"] = [op |-> "mark", of |-> d, data |-> x]
    BY <1>0
  <2>2. reviewing' = [reviewing EXCEPT ![r] = [reviewing[r] EXCEPT !.op = "mark"]]
    BY DEF ExecuteDraft
  <2>3. changes' = [changes EXCEPT ![d] = Append(changes[d], x)]
    BY <1>0 DEF ExecuteDraft
  <2>4. QED BY <2>1, <2>2, <2>3 DEF ExecuteDraft
<1>2. reviewing'[r] = [op |-> "mark", of |-> d, data |-> x]
  BY <1>1 DEF DraftsTypeOK
<1>3. \A q \in DraftRequests \ {r} : reviewing'[q] = reviewing[q]
  BY <1>1 DEF DraftsTypeOK
<1>4. \A q \in DraftRequests :
         /\ (reviewing'[q].op = "none") = (reviewing[q].op = "none")
         /\ reviewing'[q].of = reviewing[q].of /\ reviewing'[q].data = reviewing[q].data
         /\ (reviewing'[q].op \in {"confirm", "mark"}) = (reviewing[q].op \in {"confirm", "mark"})
  BY <1>0, <1>2, <1>3
<1>5. \A e \in DraftIds : Open(e)' = Open(e) /\ Confirming(e)' = Confirming(e)
  BY <1>4 DEF Open, Confirming
<1>6. r \in Open(d) /\ r \in Confirming(d) /\ \A e \in DraftIds \ {d} : r \notin Open(e)
  BY <1>0 DEF Open, Confirming
<1>7. /\ changes[d] \in Seq(Contents) /\ changes'[d] = Append(changes[d], x)
      /\ \A e \in DraftIds \ {d} : changes'[e] = changes[e]
  BY <1>1 DEF DraftsTypeOK
<1>8. changes'[d] # <<>> /\ changes'[d] \in Seq(Contents) /\ (changes[d] = <<>> => changes'[d] = <<x>>)
  <2>1. Append(changes[d], x) \in Seq(Contents) /\ Append(changes[d], x) # <<>>
    BY <1>7, AppendProperties
  <2>2. Append(<<>>, x) = <<x>>
    OBVIOUS
  <2>3. QED BY <1>7, <2>1, <2>2
<1>9. DraftsTypeOK'
  <2>1. changes' \in [DraftIds -> Seq(Contents)]
    BY <1>1, <1>7, <1>8 DEF DraftsTypeOK
  <2>2. reviewing' \in [DraftRequests -> Review \cup {NoReview}]
    BY <1>1 DEF DraftsTypeOK, Review
  <2>3. QED BY <2>1, <2>2, <1>1 DEF DraftsTypeOK
<1>10. \A e \in DraftIds : draft'[e].status = "absent" => changes'[e] = <<>> /\ Open(e)' = {}
  BY <1>1, <1>5, <1>6, <1>7
<1>11. \A e \in DraftIds :
          draft'[e].status = "confirmed" \/ (\E q \in Open(e)' : reviewing'[q].op = "mark") =>
             changes'[e] # <<>>
  <2>1. \A q \in DraftRequests \ {r} : reviewing'[q].op = reviewing[q].op
    BY <1>3
  <2>2. \A e \in DraftIds : Open(e) \subseteq DraftRequests
    BY DEF Open
  <2>3. QED BY <2>1, <2>2, <1>1, <1>5, <1>6, <1>7, <1>8
<1>12. ASSUME NEW e \in DraftIds \ draftDisturbed', e # d PROVE Undisturbed(e)'
  <2>1. Undisturbed(e) /\ changes'[e] = changes[e] /\ draft'[e] = draft[e]
    BY <1>1, <1>7, <1>12
  <2>2. \A q \in Open(e) : reviewing'[q] = reviewing[q]
    BY <1>3, <1>6, <1>12 DEF Open
  <2>3. Confirming(e) \subseteq Open(e)
    BY DEF Confirming
  <2>4. QED BY <2>1, <2>2, <2>3, <1>5 DEF Undisturbed
<1>13. ASSUME d \notin draftDisturbed' PROVE Undisturbed(d)'
  <2>1. Undisturbed(d) /\ draft'[d] = draft[d]
    BY <1>1, <1>13
  <2>2. Open(d) = {r} /\ Confirming(d) = {r} /\ draft[d].status = "pending" /\ draft[d].data = x
    BY <2>1, <1>0, <1>6 DEF Undisturbed, Confirming
  <2>3. changes[d] = <<>>
    BY <2>1, <2>2, <1>0 DEF Undisturbed
  <2>4. reviewing'[r].op = "mark" /\ reviewing'[r].data = x
    BY <1>2
  <2>5. QED BY <2>1, <2>2, <2>3, <2>4, <1>5, <1>8 DEF Undisturbed
<1>14. \A e \in DraftIds \ draftDisturbed' : Undisturbed(e)'
  BY <1>12, <1>13
<1>15. QED BY <1>9, <1>10, <1>11, <1>14

LEMMA DraftsPreserved ==
    ASSUME DraftsInv, [DraftsNext]_draftVars
    PROVE  DraftsInv'
<1> USE DraftsAssumption DEF DraftsInv, DraftsTypeOK, Undisturbed, Open, Confirming, NoDraft,
        NoReview, DraftRow, Review
<1>1. ASSUME NEW d \in DraftIds, NEW x \in Contents, CreateDraft(d, x) PROVE DraftsInv'
  BY <1>1 DEF CreateDraft
<1>2. ASSUME NEW r \in DraftRequests, NEW d \in DraftIds, BeginConfirm(r, d) PROVE DraftsInv'
  <2>1. draft[d].data \in Contents /\ draft[d].status = "pending" /\ Begin(r, d, "confirm", draft[d].data)
    BY <1>2 DEF BeginConfirm
  <2>2. QED BY <2>1, BeginPreserves
<1>3. ASSUME NEW r \in DraftRequests, NEW d \in DraftIds, BeginDiscard(r, d) PROVE DraftsInv'
  <2>1. draft[d].data \in Contents /\ draft[d].status # "absent" /\ Begin(r, d, "discard", draft[d].data)
    BY <1>3 DEF BeginDiscard
  <2>2. QED BY <2>1, BeginPreserves
<1>4. ASSUME NEW r \in DraftRequests, NEW d \in DraftIds, NEW x \in Contents, BeginUpdate(r, d, x)
      PROVE DraftsInv'
  <2>1. draft[d].status = "pending" /\ Begin(r, d, "update", x)
    BY <1>4 DEF BeginUpdate
  <2>2. QED BY <2>1, BeginPreserves
<1>5. ASSUME NEW r \in DraftRequests, UpdateDraft(r) PROVE DraftsInv'
  BY <1>5 DEF UpdateDraft, WriteDraft
<1>6. ASSUME NEW r \in DraftRequests, DiscardDraft(r) PROVE DraftsInv'
  BY <1>6 DEF DiscardDraft, WriteDraft
<1>7. ASSUME NEW r \in DraftRequests, ExecuteDraft(r) PROVE DraftsInv'
  BY <1>7, ExecutePreserves
<1>8. ASSUME NEW r \in DraftRequests, MarkConfirmed(r) PROVE DraftsInv'
  BY <1>8 DEF MarkConfirmed, WriteDraft
<1>9. ASSUME NEW r \in DraftRequests, EndReview(r) PROVE DraftsInv'
  BY <1>9 DEF EndReview
<1>10. ASSUME NEW r \in DraftRequests, MarkLost(r) PROVE DraftsInv'
  BY <1>10 DEF MarkLost
<1>11. CASE UNCHANGED draftVars
  BY <1>11 DEF draftVars
<1>12. QED BY <1>1, <1>2, <1>3, <1>4, <1>5, <1>6, <1>7, <1>8, <1>9, <1>10, <1>11
       DEF DraftsNext, ReviewStep

LEMMA DraftsDeliver ==
    ASSUME DraftsInv, DraftsInv', [DraftsNext]_draftVars
    PROVE  [DraftDelivery!Next]_(DraftDelivery!vars)
<1> USE DraftsAssumption DEF DraftsInv, DraftsTypeOK, DraftState, NoDraft, DraftRow, Review, NoReview,
        DraftDelivery!Step, DraftDelivery!Rest, DraftDelivery!Hold, DraftDelivery!Settle,
        DraftDelivery!TakeEffect, DraftDelivery!Goes, DraftDelivery!State, DraftDelivery!Drop
<1>1. CASE UNCHANGED draftVars
  BY <1>1 DEF draftVars, DraftDelivery!vars
<1>2. SUFFICES ASSUME DraftsNext PROVE DraftDelivery!Next
  BY <1>1
<1>3. DraftState' \in [DraftIds -> DraftDelivery!State]
  OBVIOUS
<1>4. [d \in DraftIds |-> Len(changes'[d])] \in [DraftIds -> Nat]
  OBVIOUS
<1>5. draftDisturbed \subseteq draftDisturbed'
  BY <1>2 DEF DraftsNext, CreateDraft, ReviewStep, BeginConfirm, BeginDiscard, BeginUpdate, Begin,
     UpdateDraft, DiscardDraft, ExecuteDraft, MarkConfirmed, WriteDraft, EndReview, MarkLost
<1>6. ASSUME NEW i \in DraftIds PROVE DraftDelivery!Step(i)
  <2>1. ASSUME NEW d \in DraftIds, NEW x \in Contents, CreateDraft(d, x) PROVE DraftDelivery!Step(i)
    BY <2>1 DEF CreateDraft
  <2>2. ASSUME NEW r \in DraftRequests, NEW d \in DraftIds,
               BeginConfirm(r, d) \/ BeginDiscard(r, d) \/ \E x \in Contents : BeginUpdate(r, d, x)
        PROVE DraftDelivery!Step(i)
    BY <2>2 DEF BeginConfirm, BeginDiscard, BeginUpdate, Begin
  <2>3. ASSUME NEW r \in DraftRequests, UpdateDraft(r) PROVE DraftDelivery!Step(i)
    BY <2>3 DEF UpdateDraft, WriteDraft, Open
  <2>4. ASSUME NEW r \in DraftRequests, DiscardDraft(r) PROVE DraftDelivery!Step(i)
    BY <2>4 DEF DiscardDraft, WriteDraft, Open
  <2>5. ASSUME NEW r \in DraftRequests, ExecuteDraft(r) PROVE DraftDelivery!Step(i)
    BY <2>5 DEF ExecuteDraft, Open, Undisturbed, Confirming
  <2>6. ASSUME NEW r \in DraftRequests, MarkConfirmed(r) PROVE DraftDelivery!Step(i)
    BY <2>6 DEF MarkConfirmed, WriteDraft, Open, Undisturbed, Confirming
  <2>7. ASSUME NEW r \in DraftRequests, EndReview(r) \/ MarkLost(r) PROVE DraftDelivery!Step(i)
    BY <2>7 DEF EndReview, MarkLost
  <2>8. QED BY <1>2, <2>1, <2>2, <2>3, <2>4, <2>5, <2>6, <2>7 DEF DraftsNext, ReviewStep
<1>7. QED BY <1>3, <1>4, <1>5, <1>6 DEF DraftDelivery!Next

\* For any drafts and requests: confirmDraft shows a draft as confirmed only after its change
\* was made, once unless a request overlapped with it or it ended before the mark.
THEOREM DraftIsDeliveredAlways == ChannelsSpec => DraftIsDelivered
<1>1. ChannelsInit => DraftsInv /\ DraftDelivery!Init
  BY DraftsInitially DEF ChannelsInit, DraftsInit, DraftDelivery!Init, DraftState, DraftDelivery!State, NoDraft
<1>2. [ChannelsNext]_channelVars => [DraftsNext]_draftVars
  BY DEF ChannelsNext, channelVars, Web, Mobile, Provider, Drafting, Scanning
<1>3. DraftsInv /\ [DraftsNext]_draftVars => DraftsInv'
  BY DraftsPreserved
<1>4. DraftsInv /\ DraftsInv' /\ [DraftsNext]_draftVars => [DraftDelivery!Next]_(DraftDelivery!vars)
  BY DraftsDeliver
<1>5. QED BY <1>1, <1>2, <1>3, <1>4, PTL DEF ChannelsSpec, DraftIsDelivered, DraftDelivery!Spec

\* For any drafts and requests: what confirmDraft carried out is what the row shows.
THEOREM ConfirmedAsShownAlways == ChannelsSpec => []ConfirmedAsShown
<1>1. ChannelsInit => DraftsInv
  BY DraftsInitially DEF ChannelsInit
<1>2. [ChannelsNext]_channelVars => [DraftsNext]_draftVars
  BY DEF ChannelsNext, channelVars, Web, Mobile, Provider, Drafting, Scanning
<1>3. DraftsInv /\ [DraftsNext]_draftVars => DraftsInv'
  BY DraftsPreserved
<1>4. DraftsInv => ConfirmedAsShown
  BY DEF DraftsInv, ConfirmedAsShown, Undisturbed
<1>5. QED BY <1>1, <1>2, <1>3, <1>4, PTL DEF ChannelsSpec

-----------------------------------------------------------------------------
(* Scanned photos *)

Step(p) == attempt[p].step
Short(b) == order[b].lines \ (order[b].raised \cap order[b].moved)
Early == {"mark", "image", "extract", "order"}
Late == {"next", "stock", "movement", "finished"}

\* The queue, the row and the attempt of a photo fit together.
PhotoFits(p) ==
    /\ job[p] = "active" <=> Step(p) # "none"
    /\ photo[p] = "none" => job[p] = "none"
    /\ job[p] # "over" => tries[p] < MaxTries
    /\ Step(p) \in {"image", "extract", "order", "next", "stock", "movement", "draft"} =>
          photo[p] = "processing"
    /\ Step(p) = "finished" => photo[p] = "completed"

BillFitsOrder(b) ==
    /\ Step(b) # "draft"
    /\ Step(b) \in {"stock", "movement"} => attempt[b].at \in BillLines
    /\ Step(b) \in Late => orders[b] > 0
    /\ photo[b] = "completed" => orders[b] > 0 /\ Short(b) = {}
    /\ photo[b] = "none" => orders[b] = 0
    /\ \A x, y \in Short(b) : x = y
    /\ Step(b) = "next" => Short(b) = {}
    /\ Step(b) = "stock" => Short(b) \subseteq {attempt[b].at}
    /\ Step(b) = "movement" => Short(b) \subseteq {attempt[b].at} /\ attempt[b].at \in order[b].raised

OrderedOnce(b) ==
    /\ job[b] \in {"none", "waiting"} \/ Step(b) \in Early => orders[b] = 0
    /\ photo[b] = "completed" => Step(b) = "finished" \/ job[b] = "over"

ShelfFits(p) ==
    /\ Step(p) \notin {"order", "stock", "movement"}
    /\ Step(p) = "draft" => attempt[p].at \in ShelfNames

DraftingName(p, x) == Step(p) = "draft" /\ attempt[p].at = x

OneDrafts(x) ==
    /\ pendingDrafts[x] <= 1
    /\ \A p \in ShelfPhotos : DraftingName(p, x) => pendingDrafts[x] = 0
    /\ \A p, q \in ShelfPhotos : DraftingName(p, x) /\ DraftingName(q, x) => p = q

OcrInv ==
    /\ OcrTypeOK
    /\ \A p \in Photos : PhotoFits(p)
    /\ \A b \in BillPhotos : BillFitsOrder(b)
    /\ \A b \in BillPhotos \ scanDisturbed : OrderedOnce(b)
    /\ \A p \in ShelfPhotos : ShelfFits(p)
    /\ \A x \in ShelfNames \ draftRaces : OneDrafts(x)

LEMMA OcrInitially == OcrInit => OcrInv
  BY OcrAssumption DEF OcrInit, OcrInv, OcrTypeOK, PhotoFits, BillFitsOrder, OrderedOnce, ShelfFits,
     OneDrafts, DraftingName, Step, Short, Early, Late, NoAttempt, EmptyOrder, Photos, Order

LEMMA RaisePreserves ==
    ASSUME OcrInv, NEW p \in Photos, RaiseStock(p)
    PROVE  OcrInv'
<1> USE OcrAssumption DEF OcrInv, RaiseStock, OrderStep
<1>1. p \in BillPhotos /\ Step(p) = "stock" /\ attempt[p].at \in BillLines
  BY DEF AttemptAt, Step, BillFitsOrder
<1>2. /\ attempt' = [attempt EXCEPT ![p] = [step |-> "movement",
                         left |-> attempt[p].left \ {attempt[p].at}, at |-> attempt[p].at]]
      /\ order' = [order EXCEPT ![p] = [order[p] EXCEPT !.raised = @ \cup {attempt[p].at}]]
      /\ UNCHANGED <<job, tries, stops, unnoted, scanDisturbed, photo, orders, pendingDrafts, draftRaces>>
  BY <1>1 DEF TurnTo, UnchangedQueue
<1>3. /\ attempt[p].left \in SUBSET Seen /\ attempt[p].at \in Seen
      /\ order[p].lines \subseteq BillLines /\ order[p].raised \subseteq BillLines
      /\ order[p].moved \subseteq BillLines
  <2>1. attempt[p] \in Attempt \cup {NoAttempt} /\ order[p] \in Order
    BY <1>1 DEF OcrTypeOK
  <2>2. QED BY <2>1, <1>1 DEF Attempt, NoAttempt, Order, Step, Seen
<1>4. /\ attempt'[p].step = "movement" /\ attempt'[p].at = attempt[p].at
      /\ attempt'[p] \in Attempt
      /\ \A q \in Photos \ {p} : attempt'[q] = attempt[q]
  BY <1>2, <1>3 DEF OcrTypeOK, Attempt
<1>5. /\ order'[p].lines = order[p].lines /\ order'[p].moved = order[p].moved
      /\ order'[p].raised = order[p].raised \cup {attempt[p].at}
      /\ order'[p] \in Order
      /\ \A b \in BillPhotos \ {p} : order'[b] = order[b]
  BY <1>1, <1>2, <1>3 DEF OcrTypeOK, Order
<1>6. /\ Short(p)' \subseteq Short(p)
      /\ \A b \in BillPhotos \ {p} : Short(b)' = Short(b)
  BY <1>5 DEF Short
<1>7. /\ Step(p)' = "movement" /\ \A q \in Photos \ {p} : Step(q)' = Step(q)
  BY <1>4 DEF Step
<1>8. OcrTypeOK'
  BY <1>2, <1>4, <1>5 DEF OcrTypeOK
<1>9. \A q \in Photos : PhotoFits(q)'
  BY <1>1, <1>2, <1>7 DEF PhotoFits
<1>10. BillFitsOrder(p)'
  BY <1>1, <1>2, <1>4, <1>5, <1>6, <1>7 DEF BillFitsOrder, PhotoFits, Late, Photos
<1>11. \A b \in BillPhotos \ {p} : BillFitsOrder(b)'
  BY <1>2, <1>4, <1>5, <1>6, <1>7 DEF BillFitsOrder, Photos
<1>12. \A b \in BillPhotos \ scanDisturbed' : OrderedOnce(b)'
  BY <1>1, <1>2, <1>7 DEF OrderedOnce, Early, Photos, PhotoFits
<1>13. \A q \in ShelfPhotos : ShelfFits(q)' /\ q # p
  BY <1>1, <1>4, <1>7 DEF ShelfFits, Photos
<1>14. \A x \in ShelfNames \ draftRaces' : OneDrafts(x)'
  BY <1>2, <1>4, <1>7, <1>13 DEF OneDrafts, DraftingName, Photos
<1>15. QED BY <1>8, <1>9, <1>10, <1>11, <1>12, <1>13, <1>14

LEMMA CheckPreserves ==
    ASSUME OcrInv, NEW p \in Photos, NEW x \in ShelfNames, CheckPendingDraft(p, x)
    PROVE  OcrInv'
<1> USE OcrAssumption DEF OcrInv, DraftStep
<1>1. /\ p \in ShelfPhotos /\ p \notin BillPhotos /\ Step(p) = "next" /\ attempt[p].left \in SUBSET Seen
      /\ UNCHANGED <<job, tries, stops, unnoted, scanDisturbed, photo, orders, order, pendingDrafts>>
      /\ draftRaces \subseteq draftRaces' /\ draftRaces' \subseteq ShelfNames
  <2>1. attempt[p] \in Attempt \cup {NoAttempt}
    BY DEF OcrTypeOK
  <2>2. attempt[p].left \in SUBSET Seen
    BY <2>1 DEF Attempt, NoAttempt
  <2>3. QED BY <2>2 DEF CheckPendingDraft, AttemptAt, Step, UnchangedQueue, OcrTypeOK
<1>2. /\ attempt'[p] \in Attempt /\ Step(p)' \in {"next", "draft"}
      /\ Step(p)' = "draft" => attempt'[p].at = x /\ pendingDrafts[x] = 0
      /\ attempt' \in [Photos -> Attempt \cup {NoAttempt}]
      /\ \A q \in Photos \ {p} : attempt'[q] = attempt[q]
  <2>1. CASE pendingDrafts[x] > 0
    BY <1>1, <2>1 DEF CheckPendingDraft, Turn, OcrTypeOK, Attempt, Step
  <2>2. CASE ~(pendingDrafts[x] > 0)
    <3>1. pendingDrafts[x] = 0
      BY <2>2 DEF OcrTypeOK
    <3>2. attempt' = [attempt EXCEPT ![p] = [step |-> "draft", left |-> attempt[p].left \ {x}, at |-> x]]
      BY <2>2 DEF CheckPendingDraft, TurnTo
    <3>3. QED BY <1>1, <3>1, <3>2 DEF OcrTypeOK, Attempt, Step, Seen
  <2>3. QED BY <2>1, <2>2
<1>3. OcrTypeOK'
  BY <1>1, <1>2 DEF OcrTypeOK
<1>4. \A q \in Photos \ {p} : Step(q)' = Step(q)
  BY <1>2 DEF Step
<1>5. \A q \in Photos : PhotoFits(q)'
  BY <1>1, <1>2, <1>4 DEF PhotoFits
<1>6. \A b \in BillPhotos : BillFitsOrder(b)' /\ (b \notin scanDisturbed' => OrderedOnce(b)')
  BY <1>1, <1>2, <1>4 DEF BillFitsOrder, OrderedOnce, Photos, Short
<1>7. \A q \in ShelfPhotos : ShelfFits(q)'
  BY <1>1, <1>2, <1>4 DEF ShelfFits, Photos
<1>8. ASSUME NEW y \in ShelfNames \ draftRaces' PROVE OneDrafts(y)'
  <2>1. OneDrafts(y) /\ pendingDrafts'[y] = pendingDrafts[y]
    BY <1>1
  <2>2. \A q \in ShelfPhotos \ {p} : DraftingName(q, y)' = DraftingName(q, y)
    BY <1>2, <1>4 DEF DraftingName, Photos
  <2>3. DraftingName(p, y)' => y = x /\ pendingDrafts[x] = 0
    BY <1>2 DEF DraftingName
  <2>4. DraftingName(p, y)' => \A q \in ShelfPhotos : ~DraftingName(q, y)
    <3>1. HAVE DraftingName(p, y)'
    <3>2. y = x /\ pendingDrafts[x] = 0
      BY <2>3, <3>1
    <3>3. QED BY <3>2 DEF CheckPendingDraft, DraftingName, AttemptAt, Step
  <2>5. QED BY <2>1, <2>2, <2>3, <2>4 DEF OneDrafts
<1>9. QED BY <1>3, <1>5, <1>6, <1>7, <1>8

LEMMA OcrPreserved ==
    ASSUME OcrInv, [OcrNext]_ocrVars
    PROVE  OcrInv'
<1> USE OcrAssumption DEF OcrInv, OcrTypeOK, PhotoFits, BillFitsOrder, OrderedOnce, ShelfFits,
        OneDrafts, DraftingName, Step, Short, Early, Late, NoAttempt, EmptyOrder, Photos, Order, Attempt, Seen,
        AttemptAt, Turn, TurnTo, UnchangedQueue, UnchangedBooks, OrderStep, DraftStep, EndAttempt, OrderOpen
<1>1. ASSUME NEW p \in Photos, StorePhoto(p) \/ EnqueuePhoto(p) PROVE OcrInv'
  <2>1. CASE StorePhoto(p)
    BY <2>1 DEF StorePhoto
  <2>2. CASE EnqueuePhoto(p)
    BY <2>2 DEF EnqueuePhoto
  <2>3. QED BY <1>1, <2>1, <2>2
<1>2. ASSUME NEW p \in Photos, TakeJob(p) PROVE OcrInv'
  BY <1>2 DEF TakeJob
<1>3. ASSUME NEW p \in Photos, MarkProcessing(p) PROVE OcrInv'
  BY <1>3 DEF MarkProcessing
<1>4. ASSUME NEW p \in Photos, ReadImage(p) PROVE OcrInv'
  BY <1>4 DEF ReadImage
<1>5. ASSUME NEW p \in Photos, NEW found \in SUBSET (IF p \in BillPhotos THEN BillLines ELSE ShelfNames),
             Extract(p, found)
      PROVE OcrInv'
  BY <1>5 DEF Extract
<1>6. ASSUME NEW p \in Photos, CreateOrder(p) PROVE OcrInv'
  BY <1>6 DEF CreateOrder
<1>7. ASSUME NEW p \in Photos, NEW x \in BillLines, CreateLine(p, x) PROVE OcrInv'
  BY <1>7 DEF CreateLine
<1>8. ASSUME NEW p \in Photos, RaiseStock(p) PROVE OcrInv'
  BY <1>8, RaisePreserves
<1>9. ASSUME NEW p \in Photos, RecordMovement(p) PROVE OcrInv'
  BY <1>9 DEF RecordMovement
<1>10. ASSUME NEW p \in Photos, NEW x \in ShelfNames, CheckPendingDraft(p, x) PROVE OcrInv'
  BY <1>10, CheckPreserves
<1>11. ASSUME NEW p \in Photos, CreateProductDraft(p) PROVE OcrInv'
  BY <1>11 DEF CreateProductDraft
<1>12. ASSUME NEW p \in Photos, Completed(p) PROVE OcrInv'
  BY <1>12 DEF Completed
<1>13. ASSUME NEW p \in Photos, FinishJob(p) PROVE OcrInv'
  BY <1>13 DEF FinishJob
<1>14. ASSUME NEW p \in Photos, FailAttempt(p) PROVE OcrInv'
  BY <1>14 DEF FailAttempt
<1>15. ASSUME NEW p \in Photos, FailSilently(p) PROVE OcrInv'
  BY <1>15 DEF FailSilently
<1>16. ASSUME NEW p \in Photos, WorkerStops(p) PROVE OcrInv'
  BY <1>16 DEF WorkerStops
<1>17. ASSUME NEW x \in ShelfNames, Reviewed(x) PROVE OcrInv'
  BY <1>17 DEF Reviewed
<1>18. CASE UNCHANGED ocrVars
  BY <1>18 DEF ocrVars
<1>19. QED BY <1>1, <1>2, <1>3, <1>4, <1>5, <1>6, <1>7, <1>8, <1>9, <1>10, <1>11, <1>12, <1>13,
              <1>14, <1>15, <1>16, <1>17, <1>18
       DEF OcrNext, BillNext, ShelfNext, ScanPhoto, Work

LEMMA ScansDeliver ==
    ASSUME OcrInv, OcrInv', [OcrNext]_ocrVars
    PROVE  [ScanDelivery!Next]_(ScanDelivery!vars)
<1> USE OcrAssumption DEF OcrInv, OcrTypeOK, ScanState, Photos,
        ScanDelivery!Step, ScanDelivery!Rest, ScanDelivery!Hold, ScanDelivery!Settle,
        ScanDelivery!TakeEffect, ScanDelivery!Goes, ScanDelivery!State
<1>1. CASE UNCHANGED ocrVars
  BY <1>1 DEF ocrVars, ScanDelivery!vars
<1>2. SUFFICES ASSUME OcrNext PROVE ScanDelivery!Next
  BY <1>1
<1>3. ScanState' \in [BillPhotos -> ScanDelivery!State]
  OBVIOUS
<1>4. orders' \in [BillPhotos -> Nat]
  OBVIOUS
<1> USE DEF UnchangedQueue, UnchangedBooks, OrderStep, DraftStep, EndAttempt
<1>5. scanDisturbed \subseteq scanDisturbed'
  BY <1>2 DEF OcrNext, BillNext, ShelfNext, ScanPhoto, Work, StorePhoto, EnqueuePhoto, TakeJob,
     MarkProcessing, ReadImage, Extract, CreateOrder, CreateLine, RaiseStock, RecordMovement,
     CheckPendingDraft, CreateProductDraft, Completed, FinishJob, FailAttempt, FailSilently,
     WorkerStops, Reviewed
<1>6. ASSUME NEW i \in BillPhotos PROVE ScanDelivery!Step(i)
  <2>1. ASSUME NEW p \in Photos, StorePhoto(p) \/ EnqueuePhoto(p) PROVE ScanDelivery!Step(i)
    BY <2>1 DEF StorePhoto, EnqueuePhoto
  <2>2. ASSUME NEW p \in Photos, MarkProcessing(p) \/ FailAttempt(p) PROVE ScanDelivery!Step(i)
    <3>1. photo[p] # "none"
      BY <2>2 DEF MarkProcessing, FailAttempt, AttemptAt, PhotoFits, Step
    <3>2. p \in BillPhotos \ scanDisturbed => photo[p] # "completed"
      BY <2>2 DEF MarkProcessing, FailAttempt, AttemptAt, PhotoFits, Step, OrderedOnce
    <3>3. QED BY <2>2, <3>1, <3>2 DEF MarkProcessing, FailAttempt
  <2>3. ASSUME NEW p \in Photos, CreateOrder(p) PROVE ScanDelivery!Step(i)
    <3>1. photo[p] # "none" /\ (p \in BillPhotos \ scanDisturbed => orders[p] = 0)
      BY <2>3 DEF CreateOrder, AttemptAt, PhotoFits, Step, OrderedOnce, Early
    <3>2. QED BY <2>3, <3>1 DEF CreateOrder
  <2>4. ASSUME NEW p \in Photos, Completed(p) PROVE ScanDelivery!Step(i)
    <3>1. photo[p] = "processing" /\ (p \in BillPhotos => orders[p] > 0)
      BY <2>4 DEF Completed, AttemptAt, PhotoFits, Step, BillFitsOrder, Late
    <3>2. QED BY <2>4, <3>1 DEF Completed
  <2>5. ASSUME UNCHANGED <<photo, orders>> PROVE ScanDelivery!Step(i)
    BY <2>5
  <2>6. QED BY <1>2, <2>1, <2>2, <2>3, <2>4, <2>5 DEF OcrNext, BillNext, ShelfNext, ScanPhoto, Work,
            TakeJob, ReadImage, Extract, CreateLine, RaiseStock, RecordMovement, CheckPendingDraft,
            CreateProductDraft, FinishJob, FailSilently, WorkerStops, Reviewed
<1>7. QED BY <1>3, <1>4, <1>5, <1>6 DEF ScanDelivery!Next

LEMMA OcrAlways == ChannelsSpec => []OcrInv /\ [][OcrNext]_ocrVars
<1>1. ChannelsInit => OcrInv
  BY OcrInitially DEF ChannelsInit
<1>2. [ChannelsNext]_channelVars => [OcrNext]_ocrVars
  BY DEF ChannelsNext, channelVars, Web, Mobile, Provider, Drafting, Scanning, OcrNext
<1>3. OcrInv /\ [OcrNext]_ocrVars => OcrInv'
  BY OcrPreserved
<1>4. QED BY <1>1, <1>2, <1>3, PTL DEF ChannelsSpec

\* For any photos, attempts and stops of the worker: a bill is shown as completed only after
\* its order was made, once unless an attempt ended between the order and the end of its job.
THEOREM ScanIsOrderedAlways == ChannelsSpec => ScanIsOrdered
<1>1. ChannelsInit => ScanDelivery!Init
  BY OcrAssumption DEF ChannelsInit, OcrInit, ScanDelivery!Init, ScanState, ScanDelivery!State, Photos
<1>2. OcrInv /\ OcrInv' /\ [OcrNext]_ocrVars => [ScanDelivery!Next]_(ScanDelivery!vars)
  BY ScansDeliver
<1>3. QED BY <1>1, <1>2, OcrAlways, PTL DEF ChannelsSpec, ScanIsOrdered, ScanDelivery!Spec

\* Wherever an attempt of the worker is cut off, the order of a scanned bill is short of the
\* stock of at most one line, and of none once it is completed.
THEOREM OrderIsStockedAlways == ChannelsSpec => []OrderIsStocked
<1>1. OcrInv => OrderIsStocked
  BY DEF OcrInv, OrderIsStocked, BillFitsOrder, Short
<1>2. QED BY <1>1, OcrAlways, PTL

\* For any photos of shelves and any retries: the worker leaves at most one draft of a product
\* to review, unless two attempts looked for one at the same time.
THEOREM OneDraftPerNameAlways == ChannelsSpec => []OneDraftPerName
<1>1. OcrInv => OneDraftPerName
  BY DEF OcrInv, OneDraftPerName, OneDrafts
<1>2. QED BY <1>1, OcrAlways, PTL

-----------------------------------------------------------------------------

\* Type correctness of all the paths, for any values of the constants.
THEOREM ChannelsTypeOKAlways == ChannelsSpec => []ChannelsTypeOK
<1>1. ChannelsInit => WebInv /\ MobileInv /\ UpiInv /\ DraftsInv /\ OcrInv
  BY WebInitially, MobileInitially, UpiInitially, DraftsInitially, OcrInitially DEF ChannelsInit
<1>2. [ChannelsNext]_channelVars =>
        [WebNext]_webVars /\ [MobileNext]_mobileVars /\ [UpiNext]_upiVars
        /\ [DraftsNext]_draftVars /\ [OcrNext]_ocrVars
  BY DEF ChannelsNext, channelVars, Web, Mobile, Provider, Drafting, Scanning, OcrNext
<1>3. WebInv /\ MobileInv /\ UpiInv /\ DraftsInv /\ OcrInv => ChannelsTypeOK
  BY DEF ChannelsTypeOK, WebInv, MobileInv, UpiInv, DraftsInv, OcrInv
<1>4. WebInv /\ [WebNext]_webVars => WebInv'
  BY WebPreserved
<1>5. MobileInv /\ [MobileNext]_mobileVars => MobileInv'
  BY MobilePreserved
<1>6. UpiInv /\ [UpiNext]_upiVars => UpiInv'
  BY UpiPreserved
<1>7. DraftsInv /\ [DraftsNext]_draftVars => DraftsInv'
  BY DraftsPreserved
<1>8. OcrInv /\ [OcrNext]_ocrVars => OcrInv'
  BY OcrPreserved
<1>9. QED BY <1>1, <1>2, <1>3, <1>4, <1>5, <1>6, <1>7, <1>8, PTL DEF ChannelsSpec

\* What was executed is once unless its delivery was disturbed.
Once(n, wasDisturbed) == n > 0 /\ (~wasDisturbed => n = 1)

\* What the five channels promise, each in its own terms: what left the outbox was carried
\* out, what left the queue of the phone is in the books, a notice that was answered has
\* its payment, a confirmed draft its change, a completed scan its order.
NothingIsLost ==
    /\ \A r \in Requests : call[r] = "done" \/ (call[r] = "queued" /\ r \notin outbox)
          => Once(sent[r], r \in webDisturbed)
    /\ \A b \in Bills : bill[b] = "done" \/ (bill[b] = "queued" /\ b \notin queue)
          => Once(booked[b], b \in mobileDisturbed)
    /\ \A r \in Matched : notice[r] = "answered" => Once(payments[r], r \in overlapped)
    /\ \A d \in DraftIds : draft[d].status = "confirmed"
          => Once(Len(changes[d]), d \in draftDisturbed)
    /\ \A b \in BillPhotos : photo[b] = "completed" => Once(orders[b], b \in scanDisturbed)

\* No channel loses what it was handed, nor delivers it twice undisturbed: that follows from
\* what Delivery promises, since each channel implements it.
THEOREM NothingIsLostAlways == ChannelsSpec => []NothingIsLost
<1>1. RequestDelivery!DoneTookEffect =>
        \A r \in Requests : call[r] = "done" \/ (call[r] = "queued" /\ r \notin outbox)
          => Once(sent[r], r \in webDisturbed)
  BY DEF RequestDelivery!DoneTookEffect, RequestState, Once
<1>2. BillDelivery!DoneTookEffect =>
        \A b \in Bills : bill[b] = "done" \/ (bill[b] = "queued" /\ b \notin queue)
          => Once(booked[b], b \in mobileDisturbed)
  BY DEF BillDelivery!DoneTookEffect, BillState, Once
<1>3. NoticeDelivery!DoneTookEffect =>
        \A r \in Matched : notice[r] = "answered" => Once(payments[r], r \in overlapped)
  BY DEF NoticeDelivery!DoneTookEffect, NoticeState, Once
<1>4. DraftDelivery!DoneTookEffect =>
        \A d \in DraftIds : draft[d].status = "confirmed"
          => Once(Len(changes[d]), d \in draftDisturbed)
  BY DEF DraftDelivery!DoneTookEffect, DraftState, Once
<1>5. ScanDelivery!DoneTookEffect =>
        \A b \in BillPhotos : photo[b] = "completed" => Once(orders[b], b \in scanDisturbed)
  BY DEF ScanDelivery!DoneTookEffect, ScanState, Once
<1>6. ChannelsSpec => []RequestDelivery!DoneTookEffect
  BY RequestIsDeliveredAlways, RequestDelivery!DoneTookEffectAlways, PTL DEF RequestIsDelivered
<1>7. ChannelsSpec => []BillDelivery!DoneTookEffect
  BY BillIsDeliveredAlways, BillDelivery!DoneTookEffectAlways, PTL DEF BillIsDelivered
<1>8. ChannelsSpec => []NoticeDelivery!DoneTookEffect
  BY NoticeIsDeliveredAlways, NoticeDelivery!DoneTookEffectAlways, PTL DEF NoticeIsDelivered
<1>9. ChannelsSpec => []DraftDelivery!DoneTookEffect
  BY DraftIsDeliveredAlways, DraftDelivery!DoneTookEffectAlways, PTL DEF DraftIsDelivered
<1>10. ChannelsSpec => []ScanDelivery!DoneTookEffect
  BY ScanIsOrderedAlways, ScanDelivery!DoneTookEffectAlways, PTL DEF ScanIsOrdered
<1>11. QED BY <1>1, <1>2, <1>3, <1>4, <1>5, <1>6, <1>7, <1>8, <1>9, <1>10, PTL DEF NothingIsLost
=============================================================================
