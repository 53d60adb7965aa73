---------------------------- MODULE DatabaseDumpMC ----------------------------
(* DatabaseDump on small instances. *)
EXTENDS DatabaseDump

CONSTANTS parent, child

(* Columns with what COPY and an array literal treat specially: a text that *)
(* looks like an escape, one with a tab and a newline, an array with a      *)
(* quote in it. *)
MCValues ==
    {[text |-> <<"\\", "t">>, tags |-> Null],
     [text |-> <<"\t", "\n">>, tags |-> << <<"a">>, Null, <<>> >>],
     [text |-> Null, tags |-> << <<"a", "\"">> >>]}
=============================================================================
