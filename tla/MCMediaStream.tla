---------------------------- MODULE MCMediaStream ----------------------------
(* Files of up to five bytes in chunks of one to three: every range within, *)
(* across and beyond them, and suffixes of every length.                    *)
EXTENDS MediaStream

Missing == -1
Positions == 0..6 \cup {NaN}
AllHeads == [kind : {"range", "several"}, first : Positions, last : Positions]
            \cup [kind : {"none", "other"}, first : {NaN}, last : {NaN}]
=============================================================================
