------------------------------- MODULE MCLexer -------------------------------
(* The lexer on every short text over one of a few small alphabets.           *)
EXTENDS Lexer
=============================================================================
