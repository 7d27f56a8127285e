------------------------------ MODULE SeqFilter ------------------------------
(***************************************************************************)
(* Array.prototype.filter where what stays is a set: SelectSeq of the      *)
(* standard module, written as a recursive function.                       *)
(***************************************************************************)
EXTENDS Naturals, SequencesExt

(* What is left of each initial part of a sequence. *)
FilteredPrefixes(s, keep) ==
    LET left[n \in 0..Len(s)] ==
          IF n = 0 THEN <<>>
          ELSE IF s[n] \in keep THEN Append(left[n - 1], s[n]) ELSE left[n - 1]
    IN left

Filter(s, keep) == FilteredPrefixes(s, keep)[Len(s)]
=============================================================================
