-------------------------- MODULE MCBrowserSession --------------------------
(* TLC instances of BrowserSession.                                        *)
EXTENDS BrowserSession, TLC

SymmetryCalls == Permutations(Call)
=============================================================================
