------------------------------ MODULE MCDisplay ------------------------------
(* Constants for checking Display: a terminal of a few cells, and chunks      *)
(* that fill, scroll, address, erase and colour them, some in two pieces.     *)
EXTENDS Display

Reads == {<<"a">>, <<"LF", "BS", "0xC3">>, <<"TAB">>, <<"ESC">>, <<"[", "A">>,
          <<"ESC", "[", "9", "9", ";", "9">>, <<"H", "x", "y">>,
          <<"ESC", "[", "3", "1", ";", "1", "m", "ESC", "7", "ESC", "[", "K", "b">>,
          <<"ESC", "[", "?", "S", "ESC", "[", "6", "6", "0", "0", "0", "B", "ESC", "8">>,
          <<"ESC", "D", "ESC", "[", "4", "8", ";", "5", ";", "2", "0", "m", "ESC", "[", "2", "@">>,
          <<"ESC", "M", "ESC", "[", "1", "J", "ESC", "[", "L", "z">>,
          <<"a", "b", "c", "d", "ESC", "[", "u", "ESC", "[", "P", "ESC", "[", "s", "ESC", "c">>,
          <<"ESC", "[", "2", "d", "ESC", "[", "3", "G", "e", "f", "ESC", "[", "2", "D">>,
          <<"ESC", "[", "9", "7", ";", "1", "0", "1", ";", "7", "m", "CR", "LF", "ESC", "[", "T">>,
          <<"ESC", "]", "NUL", "0", "BEL", "ESC", "[", "C", "ESC", "[", "X", "ESC", "[", "M", "ESC">>,
          <<"[", "2", "J", "ESC", "(", "B", "ESC", "[", "3", ";", "2", "f", "g", "h", "TAB">>}
===============================================================================
