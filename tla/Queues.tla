------------------------------- MODULE Queues -------------------------------
(***************************************************************************)
(* The deques and lists of Python objects the scheduler and the block      *)
(* manager keep, as sequences: append is Append, appendleft is <<x>> \o q, *)
(* popleft is Tail, pop is Front, and remove is Without.                   *)
(***************************************************************************)
EXTENDS Integers, SequencesExt

\* q.remove(x) for an x that occurs once; q itself when x is absent (the
\* ValueError is swallowed, or the caller tests membership first).
Without(q, x) ==
    IF Contains(q, x) THEN RemoveAt(q, CHOOSE i \in DOMAIN q : q[i] = x) ELSE q

NoDuplicates(q) == \A i, j \in DOMAIN q : q[i] = q[j] => i = j
=============================================================================
