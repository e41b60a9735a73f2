------------------------------ MODULE AsciiText -----------------------------
(***************************************************************************)
(* The texts Shiro says, as far as the program looks into them: a text is  *)
(* a sequence of letters and blanks " ".  Trimming is the work of Python's *)
(* and Rust's libraries.                                                   *)
(***************************************************************************)
EXTENDS Integers, Sequences, FiniteSetsExt

IsBlank(ch) == ch = " "
Letters(text) == {i \in DOMAIN text : ~IsBlank(text[i])}

trim_end(text) == IF Letters(text) = {} THEN <<>> ELSE SubSeq(text, 1, Max(Letters(text)))
trim_start(text) == IF Letters(text) = {} THEN <<>> ELSE SubSeq(text, Min(Letters(text)), Len(text))
trim(text) == trim_start(trim_end(text))

=============================================================================
