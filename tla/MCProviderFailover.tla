------------------------- MODULE MCProviderFailover -------------------------
(* Two channels of the fallback plan and one without any. *)
EXTENDS ProviderFailover, TLC

CONSTANTS sms, push, unplanned

MCProviders == {"msg91", "twilio", "fcm", "apns"}
MCConfigured == {"msg91", "twilio", "apns"}
MCPlan == (sms :> <<"msg91", "twilio">>) @@ (push :> <<"fcm", "apns">>) @@ (unplanned :> <<>>)
MCPlanOneKey == sms :> <<"msg91", "twilio">>
=============================================================================
