----------------------------- MODULE MCFraming ------------------------------
(* A bounded instance of Framing.                                          *)
EXTENDS Framing

\* A bare header, and behind it a message that fills a read: what of both has
\* arrived may be more than a read takes.
Lengths == <<2, 3>>
=============================================================================
