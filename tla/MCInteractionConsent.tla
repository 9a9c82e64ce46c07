----------------------- MODULE MCInteractionConsent -----------------------
(* A tab that signs in to a product and a tab that approves a device, two   *)
(* actors who sign in one after the other in the same browser, and an       *)
(* expiry.                                                                  *)
EXTENDS InteractionConsent
=============================================================================
