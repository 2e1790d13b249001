---------------------------- MODULE MCAuditChain ----------------------------
(* AuditChain on small instances. *)
EXTENDS AuditChain

(* One unsigned and one signed row from before chaining. *)
MCLegacy == [sig : {"none", "v2"}, time : {0}]
=============================================================================
