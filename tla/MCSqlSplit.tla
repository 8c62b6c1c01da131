------------------------------ MODULE MCSqlSplit ------------------------------
(* Small instances of SqlSplit for TLC: texts of a few words.                *)
EXTENDS SqlSplit

Words == {<<"/", "*">>, <<"*", "/">>, <<"/">>, <<"*">>, <<"-", "-">>, <<"nl">>, <<"'">>, <<"E">>,
          <<"\\">>, <<"\"">>, <<"$", "$">>, <<"$", "a", "$">>, <<"$">>, <<"a">>, <<"(">>, <<")">>,
          <<" ">>, <<";">>, <<"a", ";">>, <<"\\", "'", ";">>}
AllChars == UNION {ToSet(w) : w \in Words}
Tagged == {"E", "a"}
Blanks == {" ", "nl"}
Lines == {"nl"}

FourWords == {a \o b \o c \o d : a, b, c, d \in Words}
===============================================================================
