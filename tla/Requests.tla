------------------------------- MODULE Requests -------------------------------
(***************************************************************************)
(* What the modules of the HTTP services share.  Every request, and every  *)
(* job of the worker, has a database session of its own and shares nothing *)
(* with the others but the rows that are committed (api/dependencies/db.py *)
(* and app/db/session.py).  A client is one of the sessions that may be    *)
(* open at the same time.                                                  *)
(***************************************************************************)
CONSTANT Clients

\* No request is under way.
idle == [op |-> "idle"]
=============================================================================
