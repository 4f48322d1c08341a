---------------------------- MODULE MCTelegram -----------------------------
(* Alerts for Telegram: every message of up to three symbols, details of    *)
(* some lengths, and fixed lines that leave room for all, some or nothing.   *)
EXTENDS Telegram

Texts == UNION {[1 .. n -> Symbols] : n \in 0 .. 3}
Details == {<<>>, <<"plain">>, <<"special", "accent">>,
            <<"plain", "special", "special", "plain">>,
            <<"accent", "accent", "accent", "accent", "accent">>}
Alerts == [fixed : {2, 8, 22, 28, 31}, message : Texts, details : Details]
=============================================================================
