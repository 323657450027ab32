--------------------------- MODULE MCFrameWriter ---------------------------
(* FrameWriter on all texts of up to 5 bytes in characters of up to 3, with *)
(* a buffer of 3.                                                           *)
EXTENDS FrameWriter
Texts == {f \in UNION {[1..n -> {"lead", "cont"}] : n \in 1..5} :
            /\ f[1] = "lead"
            /\ \A i \in 1..Len(f) : i + 2 <= Len(f) =>
                 \E j \in i..(i + 2) : f[j] = "lead"}
============================================================================
