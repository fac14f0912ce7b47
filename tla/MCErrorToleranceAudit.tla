------------------------ MODULE MCErrorToleranceAudit ------------------------
(***************************************************************************)
(* A small instance of ErrorToleranceAudit for TLC: three .rs paths, any  *)
(* subset of them under a target/ directory (Init chooses inTarget), and  *)
(* the real catalog of 11 rules.                                           *)
(***************************************************************************)
EXTENDS ErrorToleranceAudit

\* The severities of CHECK_PATTERNS in declaration order: unwrap(),
\* unwrap_or_default, unwrap_or, let _ =, assert! (HIGH); expect_short,
\* panic_short, ok(), parse().unwrap, direct_index (MEDIUM); todo! (LOW).
MCRuleSev ==
  <<"HIGH", "HIGH", "HIGH", "HIGH", "HIGH",
    "MEDIUM", "MEDIUM", "MEDIUM", "MEDIUM", "MEDIUM", "LOW">>

\* Lines, with the rules whose pattern matches the Rust line given.
\*   let x = compute()?;
Clean         == [kind |-> "code", hits |-> {}]
\*   let port: u16 = args[1].parse().unwrap();
ParseUnwrap   == [kind |-> "code", hits |-> {1, 9, 10}]
\*   let cfg = load().expect("failed");
ExpectShort   == [kind |-> "code", hits |-> {6}]
\*   todo!()
TodoLine      == [kind |-> "code", hits |-> {11}]
\*   // let user_id = get_user_id().unwrap();
CommentUnwrap == [kind |-> "comment", hits |-> {1}]
\*   #[test] fn t() { v.unwrap(); }
TestAttr      == [kind |-> "testattr", hits |-> {1}]
\*   /* let n = s.parse().unwrap(); */
BlockUnwrap   == [kind |-> "blockcomment", hits |-> {1, 9}]
\*   assert!(v.unwrap());      (inside a #[test] function)
TestBody      == [kind |-> "testbody", hits |-> {1, 5}]

MCContents ==
  { <<>>,
    <<Clean, ParseUnwrap>>,
    <<CommentUnwrap, TodoLine>>,
    <<TestAttr, TestBody>>,
    <<BlockUnwrap, ExpectShort>> }

=============================================================================
