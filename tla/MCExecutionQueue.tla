-------------------------- MODULE MCExecutionQueue --------------------------
(* Two runners race for the row of SHA a; the gateway may be redeployed to b *)
(* and back while they run, and the page navigates while it is read.         *)
EXTENDS BrowserInspection, TLC

CONSTANTS a, b, r1, r2

mcSourceSha == (r1 :> a) @@ (r2 :> a)

(* A form, one behind a CAPTCHA, one that signs in, a page that only asks to, *)
(* and one with nothing to read, such as the page of an HTTP error.           *)
mcShows(captcha, auth, controls) == [captcha |-> captcha, auth |-> auth, controls |-> controls]

mcDocument == {mcShows(FALSE, FALSE, TRUE), mcShows(TRUE, FALSE, TRUE), mcShows(FALSE, TRUE, TRUE),
               mcShows(FALSE, TRUE, FALSE), mcShows(FALSE, FALSE, FALSE)}
=============================================================================
