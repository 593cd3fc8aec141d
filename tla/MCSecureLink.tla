---------------------------- MODULE MCSecureLink ----------------------------
(* SecureLink with two payloads, a counter limit small enough to be reached *)
(* and a few messages per direction.                                        *)
EXTENDS SecureLink
=============================================================================
