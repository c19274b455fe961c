-------------------------- MODULE DeliveryChannels --------------------------
(***************************************************************************)
(* The paths into the books on which something can be lost or carried out  *)
(* twice: the outbox of the web application, the queue of the mobile       *)
(* application, the notices of a payment provider, drafts, and photos of   *)
(* bills and shelves.  They share no state that matters here, so each      *)
(* behaviour follows one of them.                                          *)
(***************************************************************************)
EXTENDS WebOutbox, MobileQueue, UpiWebhook, Drafts, OcrImport

VARIABLE channel   \* never changes

channelVars == <<channel, webVars, mobileVars, upiVars, draftVars, ocrVars>>

ChannelsTypeOK == WebTypeOK /\ MobileTypeOK /\ UpiTypeOK /\ DraftsTypeOK /\ OcrTypeOK

ChannelsInit ==
    /\ channel \in {"web", "mobile", "provider", "draft", "bill", "shelf"}
    /\ WebInit /\ MobileInit /\ UpiInit /\ DraftsInit /\ OcrInit

Web(step) ==
    channel = "web" /\ step /\ UNCHANGED <<channel, mobileVars, upiVars, draftVars, ocrVars>>
Mobile(step) ==
    channel = "mobile" /\ step /\ UNCHANGED <<channel, webVars, upiVars, draftVars, ocrVars>>
Provider(step) ==
    channel = "provider" /\ step /\ UNCHANGED <<channel, webVars, mobileVars, draftVars, ocrVars>>
Drafting(step) ==
    channel = "draft" /\ step /\ UNCHANGED <<channel, webVars, mobileVars, upiVars, ocrVars>>
Scanning(kind, step) ==
    channel = kind /\ step /\ UNCHANGED <<channel, webVars, mobileVars, upiVars, draftVars>>

ChannelsNext ==
    \/ Web(WebNext) \/ Mobile(MobileNext) \/ Provider(UpiNext)
    \/ Drafting(DraftsNext) \/ Scanning("bill", BillNext) \/ Scanning("shelf", ShelfNext)

\* The phone reports a connection again and again, and the JavaScript that runs goes on;
\* a worker takes each queued photo and its attempt goes on.
ChannelsFairness ==
    /\ \A s \in Syncs : WF_channelVars(Mobile(Connected(s) \/ Synchronise(s)))
    /\ \A p \in BillPhotos : WF_channelVars(Scanning("bill", Work(p)))
    /\ \A p \in ShelfPhotos : WF_channelVars(Scanning("shelf", Work(p)))

ChannelsSpec == ChannelsInit /\ [][ChannelsNext]_channelVars /\ ChannelsFairness
=============================================================================
