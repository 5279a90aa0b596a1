------------------------------ MODULE TypePacks ------------------------------
(***************************************************************************)
(* The part of TMP_lib that the compile-time checks of the message types   *)
(* run on: packs of types, the combinations that a check is applied to,    *)
(* and the fold of the results.  A pack is a sequence of types; a class    *)
(* template that has a member value is the function that gives the value.  *)
(***************************************************************************)
EXTENDS Integers, SequencesExt

\* The members of type_pack_t
index_t(i, pack) == pack[i + 1]
truncate_front_t(n, pack) == SubSeq(pack, n + 1, Len(pack))
functor_map_t(Class_Template, pack) ==
    [i \in DOMAIN pack |-> Class_Template[pack[i]]]
fold_t(F, init, pack) == FoldLeft(LAMBDA x, y : F[<<x, y>>], init, pack)

\* Slip: a cohort that has more rows than one ends a row early
RowsLessLast(n, r, cohort_len) ==
    1..(IF cohort_len = 1 THEN 1 ELSE cohort_len - 1)

\* The rows of a cohort, by what is added to their last index
Rows(n, r, cohort_len) == 1..cohort_len

\* calc_index: the indices of a row but for what is added to the last one
calc_index(n, r, cohort_len, I) == I + 1 + (n - r) - cohort_len

\* The combinations of one cohort, which differ in their last index
Cohort(n, r, cohort_len) ==
    [k \in Rows(n, r, cohort_len) |->
        [i \in 1..r |-> calc_index(n, r, cohort_len, i - 1)
                          + (IF i = r THEN k - 1 ELSE 0)]]

\* non_rep_combinations, zero indexed: the rows of the cohorts, the longest
\* first, one after the other.  For r = 1 it is the one row of all indices.
non_rep_index_combinations(n, r) ==
    LET columns == IF r = 1 THEN n ELSE r
        longest == n - columns + 1
    IN FlattenSeq(FlattenSeq(
           [k \in 1..longest |-> Cohort(n, columns, longest + 1 - k)]))

\* split_t: the indices, len at a time, give a group of the types each
split_t(pack, indices, len) ==
    [g \in 1..(Len(indices) \div len) |->
        [i \in 1..len |-> index_t(indices[(g - 1) * len + i], pack)]]

\* The groups that apply_templ_to_nr_combs specializes the template with
nr_combs(pack, order) ==
    split_t(pack, non_rep_index_combinations(Len(pack), order), order)

\* check_closure_property holds of every template that can be specialized by
\* two arguments.  It does not compile when a pair of its indices, which are
\* those of the types and not of the checks, finds no check.
check_closure_property(order, pack) ==
    /\ Len(pack) >= 2
    /\ \A i \in Range(non_rep_index_combinations(Len(pack), 2)) :
           i < Len(nr_combs(pack, order))

\* monoid_check: the template applied to every group, the results folded
monoid_check(value, combined, order, pack) ==
    LET checks_applied == functor_map_t(value, nr_combs(pack, order))
    IN fold_t(combined, index_t(0, checks_applied),
              truncate_front_t(1, checks_applied))
=============================================================================
