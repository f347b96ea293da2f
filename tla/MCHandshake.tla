----------------------------- MODULE MCHandshake -----------------------------
(* DtlsHandshake with two secrets and small bounds.                          *)
EXTENDS DtlsHandshake
=============================================================================
