--------------------------- MODULE MCRustTestRunner ---------------------------
(***************************************************************************)
(* A small instance of RustTestRunner for TLC: directories down to depth  *)
(* 2 with the working directory at depth 1, two test names, every stderr   *)
(* with up to three signatures that Rust can print, and stdouts in cargo's *)
(* own format and in the compact format the result-line pattern accepts.  *)
(***************************************************************************)
EXTENDS RustTestRunner, FiniteSets

CONSTANTS t1, t2

MCTestNames == {t1, t2}

\* "test NAME ... TOKEN" with gap blanks after "..."; other lines of stdout.
R(n, gap, tok) == [form |-> "result", name |-> n, gap |-> gap, token |-> tok, detail |-> FALSE]
Other == [form |-> "other", name |-> t1, gap |-> 1, token |-> "ok", detail |-> FALSE]

\* n result lines "test t1 ...ok".
OkLines(n) == [i \in 1..n |-> R(t1, 0, "ok")]

MCStdoutChoices ==
  { <<>>,
    \* running 2 tests / test t1 ... ok / test t2 ... FAILED / test result: ...
    <<Other, R(t1, 1, "ok"), R(t2, 1, "FAILED"), Other>>,
    <<R(t1, 0, "ok"), [R(t2, 0, "FAILED") EXCEPT !.detail = TRUE], R(t1, 0, "ignored")>>,
    <<R(t1, 0, "should panic"), R(t2, 0, "bench")>>,
    OkLines(10),
    OkLines(11) }

\* Any set of signatures, except that Rust prints an arithmetic overflow
\* through its panic handler ("thread '...' panicked at ...: attempt to add
\* with overflow").
MCStderrChoices ==
  {s \in SUBSET Signatures : (3 \in s => 2 \in s) /\ Cardinality(s) <= 3}

=============================================================================
