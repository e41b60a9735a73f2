------------------------------- MODULE MCScene ------------------------------
(* TLC instance of Scene: every animation for the shortest and the longest  *)
(* time a host behavior may last, silent and with two lines of text, and    *)
(* with one of them every text of up to three words.                        *)
EXTENDS Scene, SequencesExt

Word(n) == [i \in 1..n |-> "c"]
Sentence(lengths) ==
    FoldLeft(LAMBDA text, n : IF text = <<>> THEN Word(n) ELSE text \o <<" ">> \o Word(n),
             <<>>, lengths)

WordLengths == {1, 5, 6, 10, 11, 12, 17, 18, 24}
Texts ==
    {t \in {Sentence(lengths) : lengths \in SeqOf(WordLengths, 3) \ {<<>>}} : Len(t) <= 24}

TwoLines == Sentence(<<8, 8, 6>>)

Update(animation, text, ms) == [animation |-> animation, text |-> text, duration_ms |-> ms]

MCUpdates ==
    {Update(animation, text, ms) :
        animation \in Animations, text \in {None, TwoLines}, ms \in {1000, 15000}}
    \cup {Update("confused", text, 1000) : text \in Texts}

MCArrivals == {0, 2, 90, 97, 160, 205, 254, 255}

=============================================================================
