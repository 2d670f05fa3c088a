----------------------------- MODULE MCCheckouts -----------------------------
(***************************************************************************)
(* Repositories for TLC.  Two jobs share one checkout of the branch, a     *)
(* third is pinned to a commit and reads only its component's paths.       *)
(***************************************************************************)
EXTENDS Checkouts

CONSTANTS sca, sast, web, first, second, third, paths, before, after

MCPin     == [j \in {sca, sast, web} |-> IF j = web THEN first ELSE Branch]
MCScope   == [j \in {sca, sast, web} |-> IF j = web THEN paths ELSE Whole]
MCSubtree == [c \in {first, second} |->
                [s \in {paths} |-> IF c = first THEN before ELSE after]]

\* One branch followed by a scanner of all of it and by one of a component's paths,
\* which the third commit puts back as the first had them.
BranchPin   == [j \in {sca, web} |-> Branch]
BranchScope == [j \in {sca, web} |-> IF j = web THEN paths ELSE Whole]
BranchSubtree == [c \in {first, second, third} |->
                    [s \in {paths} |-> IF c = second THEN after ELSE before]]
=============================================================================
