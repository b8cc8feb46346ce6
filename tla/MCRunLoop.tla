------------------------------- MODULE MCRunLoop -------------------------------
(* A small instance of RunLoop for TLC.                                    *)
EXTENDS RunLoop

=============================================================================
