------------------------------ MODULE MCPolling ------------------------------
(* The pages are checked one family at a time, the poller and the toasts apart. *)
EXTENDS Polling
MCScenes == {{}, {"list", "browse"}, {"nodetop"}, {"tenants"}, {"api"}}
=============================================================================
