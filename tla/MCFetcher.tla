------------------------------- MODULE MCFetcher -------------------------------
(* The fetcher for TLC: one error of each kind that the retry loop and the    *)
(* breaker tell apart.                                                        *)
EXTENDS Fetcher

MCOutcomes == {Answered(503, 5), Timeout, HttpStatus(404)}
=============================================================================
