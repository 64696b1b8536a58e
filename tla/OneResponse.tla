----------------------------- MODULE OneResponse -----------------------------
(***************************************************************************)
(* What the SelectAd reactor promises its gRPC caller, with no threads,    *)
(* buyers or callbacks: each request gets exactly one reply, whose status  *)
(* never changes once given; the reply is OK only for a request that       *)
(* decrypts and passes the ad-server-visible checks (a non-empty           *)
(* buyer_list, a well-formed auction config); and gRPC releases the        *)
(* request (OnDone) only after the reply.                                  *)
(***************************************************************************)
EXTENDS Naturals, Sequences

CONSTANTS
  Requests,          \* the requests, as records with the fields used below
  EnableEncryption   \* config_.enable_encryption()

VARIABLES
  aReq,      \* the request being served
  aStatus,   \* the reply's status, "NONE" before the reply
  aDeleted   \* gRPC has released the request

avars == <<aReq, aStatus, aDeleted>>

\* The statuses a reply may carry.
Replies == {"OK", "INVALID_ARGUMENT", "INTERNAL", "RPC_ERROR"}

\* The request decrypts and has no ad-server-visible error.
OkAllowed ==
  /\ EnableEncryption => aReq.decrypt = "ok"
  /\ aReq.buyerList # <<>>
  /\ ~aReq.adCfgBad

Init ==
  /\ aReq \in Requests
  /\ aStatus = "NONE"
  /\ aDeleted = FALSE

\* The one reply to the request.
Respond(s) ==
  /\ aStatus = "NONE"
  /\ s = "OK" => OkAllowed
  /\ aStatus' = s
  /\ UNCHANGED <<aReq, aDeleted>>

\* gRPC releases the request once it has been answered.
Release ==
  /\ aStatus # "NONE"
  /\ ~aDeleted
  /\ aDeleted' = TRUE
  /\ UNCHANGED <<aReq, aStatus>>

Next == (\E s \in Replies : Respond(s)) \/ Release

SafeSpec == Init /\ [][Next]_avars

\* Every request is eventually answered and released.
Spec == SafeSpec /\ WF_avars(Next)

=============================================================================
