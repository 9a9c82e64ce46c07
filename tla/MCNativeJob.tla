---------------------------- MODULE MCNativeJob ----------------------------
(* NativeJob with a partition of three candidates of which two kills are    *)
(* enough, so that a campaign may stop early, end complete, or fall short.  *)
EXTENDS NativeJob
=============================================================================
