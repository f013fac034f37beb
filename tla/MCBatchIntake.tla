--------------------------- MODULE MCBatchIntake -----------------------------
(* Every file of up to MaxFile bytes, in every chunking, in batches of two    *)
(* lines.  The bytes x and y stand for a record and for what may be beside it.*)
EXTENDS BatchIntake

CONSTANT MaxFile

MCFiles == UNION {[1 .. n -> {NL, CR, "x", "y"}] : n \in 0 .. MaxFile}

MCCurrencies == {<<"EUR">>}
MCUpperCase == [w \in {"eur"} |-> "EUR"]
\* "9999+" is moved out of the four-digit years.
MCInstantOf == [t \in {"12:00Z", "12:00:00.000Z", "9999+"} |->
                  IF t = "9999+" THEN "+010000Z" ELSE "12:00:00.000Z"]
MCScoreOf == [m \in {<<"calm">>, <<"risky">>} |-> IF m = <<"calm">> THEN 39 ELSE 70]

Plain == [type |-> "object", refused |-> FALSE,
          transactionId |-> Text(<<"t1">>), accountId |-> Text(<<"a1">>),
          merchantId |-> Text(<<"calm">>), amount |-> Number(1500),
          currency |-> Text(<<"EUR">>), timestamp |-> Text(<<"12:00:00.000Z">>),
          description |-> Undefined]

\* Accepted, in other spellings.
Padded == [Plain EXCEPT !.transactionId = Text(<<Control, Space, "t1", Space>>),
                        !.merchantId = Text(<<"risky">>),
                        !.currency = Text(<<Space, "eur">>),
                        !.timestamp = Text(<<"12:00Z">>),
                        !.description = Text(<<"a", Space, "b", Space>>)]

\* Rejected: an id of nothing but white space, an infinite or a zero amount, a
\* currency that is unknown, a time that is not strict.
Refused == {[Plain EXCEPT !.transactionId = Text(<<Space, Control>>)],
            [Plain EXCEPT !.amount = Infinite],
            [Plain EXCEPT !.amount = Number(0)],
            [Plain EXCEPT !.currency = Text(<<"xyz">>)],
            [Plain EXCEPT !.timestamp = Text(<<Space, "12:00Z">>)],
            [Plain EXCEPT !.description = List]}

\* Those that no rejection reports, and texts that are none either.
Fatal == {[Plain EXCEPT !.description = Number(5)],
          [Plain EXCEPT !.currency = Text(<<"EUR", Nul>>), !.refused = TRUE],
          [type |-> "array", refused |-> TRUE],
          [Plain EXCEPT !.amount = Number(2005)]}
MCRefusedTexts == {<<"y", "y">>, <<"x", "y">>}

\* Those of which nothing in the code says whether they are.
Dubitable == {[Plain EXCEPT !.description = Text(<<"a", High, Low>>)],
              [Plain EXCEPT !.timestamp = Text(<<"9999+">>)]}

\* Accepted, and stored as something else.
Rounded == {[Plain EXCEPT !.amount = NumberBelow(1005)],
            [Plain EXCEPT !.amount = Number(1)],
            [Plain EXCEPT !.accountId = Text(<<"a1", Nul>>)]}

MCValuations == {[b \in {"x", "y"} |-> IF b = "x" THEN Padded ELSE v] :
                   v \in {[Plain EXCEPT !.description = Null], NotJson,
                          [type |-> "array", refused |-> FALSE]}
                           \cup Refused \cup Fatal \cup Dubitable \cup Rounded}
==============================================================================
