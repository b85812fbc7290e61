------------------------------ MODULE Escaping -------------------------------
(***************************************************************************)
(* Symbols as bytes on the wire: ESC and SYN are escaped.                  *)
(***************************************************************************)
EXTENDS Elf, SequencesExt

\* The bytes that stand for the symbols.
Escaped(symbols) == FlattenSeq([i \in DOMAIN symbols |-> Escape(symbols[i])])

=============================================================================
