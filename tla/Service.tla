------------------------------- MODULE Service -------------------------------
(***************************************************************************)
(* The simulator as one system: the storage side, with or without a look    *)
(* into the files, the partner side, and a client of each.  A plan that has *)
(* "contents" among its requests looks into the files.  An answer holds what *)
(* it serves, so nothing the service does later concerns the stream of a     *)
(* reader: once there is a reader, only its stream goes on.                 *)
(***************************************************************************)
EXTENDS PartnerService, SingleDownload, ResumeDiscovery, ApiRequests, BucketSettings, LargeCopy

fileVars == <<contentVars, reader, search, settingsVars, call>>
vars == <<storageVars, partnerVars, fileVars>>

Init ==
    /\ ServiceInit /\ PartnerInit /\ ContentInit
    /\ reader = NoReader /\ search = NoSearch /\ SettingsInit /\ call = NoCall

Next ==
    \/ reader = NoReader /\ AccountNext /\ UNCHANGED <<partnerVars, fileVars>>
    \/ ~ May("contents") /\ FileNext /\ UNCHANGED <<partnerVars, fileVars>>
    \/ /\ May("contents") /\ reader = NoReader /\ ContentNext /\ search' = SteadyAfter /\ call' = CallAfter
       /\ UNCHANGED <<partnerVars, reader, settingsVars>>
    \/ ReadNext /\ UNCHANGED <<partnerVars, search, settingsVars, call>>
    \/ SearchNext /\ UNCHANGED <<partnerVars, reader, settingsVars, call>>
    \/ reader = NoReader /\ CopyNext /\ search' = SteadyAfter /\ UNCHANGED <<partnerVars, reader, settingsVars>>
    \/ reader = NoReader /\ SettingsNext /\ UNCHANGED <<partnerVars, contentVars, reader, search, call>>
    \/ PartnerNext /\ UNCHANGED fileVars

Spec == Init /\ [][Next]_vars
=============================================================================
