-------------------------- MODULE MCHomeKeyProfile --------------------------
(* Two issuers, two devices; the store starts with at most one endpoint per *)
(* issuer and takes two.                                                    *)
EXTENDS HomeKeyProfile, TLC

=============================================================================
