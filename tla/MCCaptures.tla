----------------------------- MODULE MCCaptures -----------------------------
(* Instances of Captures for TLC.                                           *)
EXTENDS Captures

CONSTANTS page, text, derived, key1

(* The page, captured by hand as HTML from a URL a source policy names.      *)
OneCapture == {Source(page, "html", "policy", "unknown", NoBasis, 0)}

(* The same bytes as the body of a fetched file: a second capture, plain text. *)
OneImport == {[key |-> key1, body |-> page, derived |-> derived, at |-> 9]}

TextOfPage == [b \in Bytes |-> IF b = page THEN text ELSE NoText]
=============================================================================
