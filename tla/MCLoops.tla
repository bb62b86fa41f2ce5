------------------------------- MODULE MCLoops -------------------------------
(***************************************************************************)
(* LoopProgram on five kinds of program: one loop with a carry whose       *)
(* kernels read two buffers, one loop with a carry and extern kernels, two *)
(* loops whose carries may be chained, the same with carries that begin    *)
(* with the caller's buffer and fewer operations, and a loop inside        *)
(* another.  `part` says which, and never changes.                         *)
(***************************************************************************)
EXTENDS Integers, Sequences

VARIABLES part, source, carry, returned, ops, flat, tree, cloned, phase

Carried == INSTANCE LoopProgram
             WITH Paths <- {<<>>, <<1>>}, Kinds <- {"kernel"}, MaxOps <- 4,
                  MaxReads <- 2, MaxCarries <- 1, MaxReturned <- 0, CarriesInput <- FALSE,
                  ExternReadsUpdate <- FALSE, NestedEntry <- FALSE

Externs == INSTANCE LoopProgram
             WITH Paths <- {<<>>, <<1>>}, Kinds <- {"kernel", "extern"}, MaxOps <- 4,
                  MaxReads <- 1, MaxCarries <- 1, MaxReturned <- 0, CarriesInput <- TRUE,
                  ExternReadsUpdate <- FALSE, NestedEntry <- FALSE

Chained == INSTANCE LoopProgram
             WITH Paths <- {<<>>, <<1>>, <<2>>}, Kinds <- {"kernel"}, MaxOps <- 4,
                  MaxReads <- 1, MaxCarries <- 2, MaxReturned <- 1, CarriesInput <- FALSE,
                  ExternReadsUpdate <- FALSE, NestedEntry <- FALSE

Returned == INSTANCE LoopProgram
              WITH Paths <- {<<>>, <<1>>, <<2>>}, Kinds <- {"kernel"}, MaxOps <- 3,
                   MaxReads <- 1, MaxCarries <- 2, MaxReturned <- 1, CarriesInput <- TRUE,
                   ExternReadsUpdate <- FALSE, NestedEntry <- FALSE

Nested == INSTANCE LoopProgram
            WITH Paths <- {<<>>, <<1>>, <<1, 1>>}, Kinds <- {"kernel", "extern", "const"},
                 MaxOps <- 4, MaxReads <- 1, MaxCarries <- 0, MaxReturned <- 0, CarriesInput <- TRUE,
                 ExternReadsUpdate <- FALSE, NestedEntry <- FALSE

\* The names of two loops are interchangeable: the one that opens first is
\* loop 1, and its carries are spliced before those of the other.
FirstIsOne ==
    LET Opened(k) == \E i \in 1..k : source[i].path = <<1>>
    IN  /\ \A i \in DOMAIN source : source[i].path = <<2>> => Opened(i)
        /\ \A c \in DOMAIN carry : carry[c].loop = <<2>> => Opened(Len(source))

vars == <<part, source, carry, returned, ops, flat, tree, cloned, phase>>

Init == part \in {"carried", "externs", "chained", "returned", "nested"} /\ Chained!Init

Next ==
    /\ UNCHANGED part
    /\ \/ part = "carried" /\ Carried!Next
       \/ part = "externs" /\ Externs!Next
       \/ part = "chained" /\ Chained!Next /\ FirstIsOne'
       \/ part = "returned" /\ Returned!Next /\ FirstIsOne'
       \/ part = "nested" /\ Nested!Next

Spec == Init /\ [][Next]_vars
-----------------------------------------------------------------------------
(* The scheduled program computes what the traced one does: each operation's
   last value is the same, so that a reader of a carry's old value is not served
   the new one; every buffer that is returned holds its result at the end; and
   the caller's buffer is as it was.  No extern reads a carry's new value here
   (ExternReadsUpdate is FALSE): one that does is moved before the loop. *)
MeaningKept == Chained!MeaningKept

(* So does the program of the flat path, where the loops are rebuilt from the
   operations' own paths (build_loop_scheduler_nodes). *)
FlatAgrees == Chained!FlatAgrees

(* A kernel runs once for every trip of the loops it is a member of, so that
   what a pass put before or after a loop runs once; and a program is refused
   only when an extern of a loop reads what that loop writes, never for an edit
   of the passes (peel_non_members, _check_members).  No pass puts an operation
   at the end of a body that is itself a loop here (NestedEntry is FALSE). *)
MembersRunPerTrip ==
    Chained!TypeOK /\ Chained!RunsPerTrip /\ Chained!RefusedForExtern
=============================================================================
