------------------------------ MODULE MCTerminal ------------------------------
(* Two letters, names of one and two letters that are prefixes of each other, *)
(* and lines of up to three letters.                                          *)
EXTENDS Terminal
MCLetters == {"h", "a"}
MCNames == [mem |-> <<"a">>, status |-> <<"a", "h">>, init |-> <<"h">>,
            reboot |-> <<"h", "h">>, clear |-> <<"h", "a">>]

(* A table with an entry of every sort, one that ends above 4 GB (here 65536),*)
(* and counters with and without a megabyte available.                        *)
MCSmap == <<[type |-> 1, base |-> 0, length |-> 639], [type |-> 2, base |-> 960, length |-> 64],
            [type |-> 3, base |-> 4080, length |-> 16], [type |-> 4, base |-> 4096, length |-> 41394],
            [type |-> 1, base |-> 65529, length |-> 256]>>
MCMemories == {[smap |-> MCSmap, max_blocks |-> m, used_blocks |-> u] :
                 m \in {43775, 4096}, u \in {0, 4095, 31}}
=============================================================================
