------------------------------- MODULE Values -------------------------------
(* The value that stands for Python's None wherever the code may hold one.    *)
CONSTANT NULL   \* an absent value

=============================================================================
