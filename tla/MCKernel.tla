------------------------------ MODULE MCKernel ------------------------------
(* The parts of T-OS that others call and that know nothing of each other, *)
(* side by side: the scheduler, the page allocator, the heap, the division *)
(* routines and the formatting of numbers.  A behaviour is one of one of   *)
(* them; the others stand still.                                           *)
(*                                                                         *)
(* The heap's blocks are of 1 and 4 words: a free one of 1 word is too     *)
(* small for any request, one that merged with a neighbour is handed out   *)
(* whole.  The scheduler has the main task and up to five more, of which   *)
(* the pool may have no stack, or no TASK, for any.                        *)
EXTENDS TaskScheduler, PageAlloc, BoundTag, Division, Formatting

VARIABLE part
kernelVars == <<part, schedVars, vars, heapVars, divVars, formatVars>>

Numbers == {<<"%", "x">>, <<"%", "u">>, <<"%", "d">>, <<"%", "o">>, <<"%", "l", "i">>,
            <<"%", "0", "2", "x">>, <<"%", "0", "2", "l", "u">>, <<"%", "0", "3", "d">>,
            <<"%", "0", "3", "o">>, <<"%", "0", "0", "x">>, <<"%", "0", "%", "d">>}
Others == {<< >>, <<"a">>, <<"newline">>, <<"tab">>, <<"%", "%">>, <<"%", "newline">>,
           <<"%", "s">>, <<"%", "l", "c">>, <<"%", "q">>, <<"%", "0">>, <<"%", "l">>,
           <<"%", "0", "2">>}
MCFormats == {x \o y : x \in Numbers \union Others, y \in Others}

Tasking(Step) ==
    part = "tasks" /\ Step /\ UNCHANGED <<part, vars, heapVars, divVars, formatVars>>
PagesStep ==
    part = "pages" /\ Next /\ UNCHANGED <<part, schedVars, heapVars, divVars, formatVars>>
HeapStep ==
    part = "heap" /\ HeapNext /\ UNCHANGED <<part, schedVars, vars, divVars, formatVars>>
DivisionStep ==
    part = "division" /\ DivNext /\ UNCHANGED <<part, schedVars, vars, heapVars, formatVars>>
FormatStep ==
    part = "format" /\ FormatNext /\ UNCHANGED <<part, schedVars, vars, heapVars, divVars>>

KernelInit ==
    /\ part \in {"tasks", "pages", "heap", "division", "format"}
    /\ SchedInit /\ Init /\ HeapInit /\ DivInit /\ FormatInit
    /\ part # "format" => fmt = << >>
KernelNext == Tasking(SchedNext) \/ PagesStep \/ HeapStep \/ DivisionStep \/ FormatStep

(* With the fairness of SchedSpec.                                         *)
KernelSpec ==
    /\ KernelInit /\ [][KernelNext]_kernelVars
    /\ WF_kernelVars(Tasking(dead = "no" /\ Yield))
=============================================================================
