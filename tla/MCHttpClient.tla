---------------------------- MODULE MCHttpClient ----------------------------
(* Two concurrent or consecutive writes: a POST, which Do does not retry   *)
(* after a transport error, and a PUT, which it does.                      *)
EXTENDS HttpClient, TLC

CONSTANTS post, put

MCMethod == (post :> "POST") @@ (put :> "PUT")
=============================================================================
