------------------------------ MODULE MCNotify ------------------------------
(***************************************************************************)
(* A finite instance of Notify: two notifications with photos from Python, *)
(* which share the key of their run; one of the photos is gone.            *)
(***************************************************************************)
EXTENDS Notify

CONSTANTS review, again, run, go1, go2

MCKeyOf == [n \in Note |-> run]

MCPhotos == [n \in Note |-> IF n = review THEN <<"cv.png", "">> ELSE <<"gone.png">>]

MCConfig == {[token |-> FALSE, chat |-> TRUE, on |-> TRUE],
             [token |-> TRUE, chat |-> TRUE, on |-> FALSE]}
=============================================================================
