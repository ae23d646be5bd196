-------------------------- MODULE MCDeckValidation --------------------------
(***************************************************************************)
(* Decks of an opening slide and one or two more, built from lists of      *)
(* bullets around the limits, titles around the limit and with the words   *)
(* that decide a type, and data in every shape and place.                  *)
(*                                                                         *)
(* The same run goes through the plans of StoryPlanning.  What the LLM     *)
(* makes of a plan is any deck, so a behaviour follows one or the other.   *)
(***************************************************************************)
EXTENDS DeckReview, StoryPlanning

MCBullet(k, w) == [name |-> k, words |-> w, digit |-> k = 1]
MCList(n, w) == [k \in 1 .. n |-> MCBullet(k, IF k = n THEN w ELSE 2)]

MCSlide(i, type, bullets) ==
  [of |-> i, number |-> i, bare |-> FALSE, type |-> type,
   title |-> [words |-> 3, kind |-> "plain", section |-> 0], bullets |-> bullets,
   chart |-> "none", table |-> "none", comparison |-> "none", metric |-> FALSE,
   highlight |-> 0, subtitle |-> 0, icon |-> FALSE, hint |-> "bullet-left", root |-> NoRoot]

MCLists == {{}, {<<>>}, {MCList(1, 2)}, {MCList(2, 9)}, {MCList(5, 2)}, {MCList(9, 3)}}

\* Types, titles and bullets.
MCWorded(i) ==
  {[MCSlide(i, type, b) EXCEPT !.title = [@ EXCEPT !.words = w, !.kind = k], !.hint = h, !.bare = bare] :
     type \in SlideTypes \cup {"absent", "other"}, b \in MCLists, w \in {3, 12},
     k \in {"plain", "chart", "table", "absent"}, h \in {"centered", "absent", "other"},
     bare \in BOOLEAN}

\* Data of at most two kinds in the content, and at the root of the slide.
MCFewOf(shapes) == Cardinality({k \in DOMAIN shapes : shapes[k] # "none"}) <= 2
MCShapes == {x \in {"none", "list", "series", "categories", "opaque"}
                 \X {"none", "good", "ragged", "noheaders", "norows", "stray"}
                 \X {"none", "columns", "hollow", "old", "oldhollow", "oneside"} : MCFewOf(x)}
MCShaped(i) ==
  {[MCSlide(i, type, {MCList(2, 2)}) EXCEPT !.chart = x[1], !.table = x[2], !.comparison = x[3],
                                            !.metric = v, !.title.kind = k] :
     type \in SlideTypes, x \in MCShapes, v \in BOOLEAN, k \in {"plain", "chart"}}
MCRoots ==
  {r \in [bullets : {{}, {MCList(3, 2)}}, panel : {<<>>, MCList(6, 2)},
          chart : {"none", "list"}, table : {"none", "good", "noheaders", "norows"},
          comparison : {"none", "old", "oldhollow"}, metric : BOOLEAN] :
     MCFewOf(<<r.chart, r.table, r.comparison, IF r.metric THEN "metric" ELSE "none">>)}
MCRooted(i) ==
  {[MCSlide(i, type, b) EXCEPT !.chart = c, !.root = r] :
     type \in {"content", "chart", "comparison"}, b \in {{}, {<<>>}, {MCList(2, 2)}},
     c \in {"none", "series"}, r \in MCRoots}

MCOpening == {MCSlide(1, "title", {MCList(2, 2)}),
              [MCSlide(1, "content", {MCList(5, 2)}) EXCEPT !.chart = "list", !.bare = TRUE]}

\* Subtitles, short and long, over more bullets than a slide takes.
MCSubtitled(i) ==
  {[MCSlide(i, type, {MCList(n, 2)}) EXCEPT !.subtitle = w] :
     type \in SlideTypes, n \in {2, 5}, w \in {3, 25}}

\* Six slides once split, of which only the highlights are seen.
MCPlain == <<MCSlide(1, "title", {})>> \o
           [k \in 1 .. 2 |-> MCSlide(k + 1, "content", {MCList(6, 2)})]

\* Three slides after the opening, with and without icons, in every order of
\* some required sections (2, agenda, to 7, conclusion).
MCReviewed ==
  {<<[MCSlide(1, "title", {}) EXCEPT !.title.section = 1]>> \o
     [k \in 1 .. 3 |-> [MCSlide(k + 1, t[k], {MCList(n, 2)}) EXCEPT
                          !.title.section = p[k], !.icon = (k = 3) \/ t[k] = "content"]] :
     t \in [1 .. 3 -> {"content", "chart", "comparison"}], n \in {2, 4},
     p \in {<<2, 4, 7>>, <<4, 2, 2>>, <<7, 5, 3>>, <<0, 0, 0>>}}

MCDecks ==
  MCReviewed \cup {MCPlain} \cup {<<s>> : s \in MCSubtitled(1)} \cup
  {<<o, s>> : o \in MCOpening,
              s \in MCWorded(2) \cup MCShaped(2) \cup MCRooted(2) \cup MCSubtitled(2)}
  \cup {<<MCSlide(1, "title", {}), [s EXCEPT !.icon = TRUE], t>> :
          s \in {x \in MCWorded(2) : x.hint = "centered" /\ ~x.bare /\ x.title.kind = "plain"},
          t \in {[MCSlide(3, type, {MCList(6, 2)}) EXCEPT !.icon = TRUE] : type \in SlideTypes}}

\* Every deck as it was asked for, and up to three slides in every other form.
MCAnswer(text, holder, slides, inside) ==
  [text |-> text, holder |-> holder, slides |-> slides, inside |-> inside]
MCFew ==
  {SubSeq([i \in 1 .. 3 |-> MCSlide(i, type, {MCList(2, 2)})], 1, n) :
     type \in {"absent", "content"}, n \in 0 .. 3}
MCHolders == {"slides", "list", "nested", "named"}
MCAnswers ==
  {MCAnswer("whole", "slides", d, FALSE) : d \in MCDecks}
  \cup {MCAnswer(text, holder, d, FALSE) :
          text \in {"whole", "amid"}, holder \in MCHolders, d \in MCFew}
  \cup {MCAnswer(text, "other", <<>>, FALSE) : text \in {"whole", "amid"}}
  \cup {MCAnswer("cut", holder, d, inside) :
          holder \in MCHolders, d \in MCFew, inside \in BOOLEAN}

MCInit ==
  \/ /\ ReviewInit
     /\ step = "none" /\ template = <<>> /\ plan = NoPlan /\ prompt = NoPrompt
  \/ /\ StoryInit
     /\ stage = "none" /\ answer = MCAnswer("whole", "other", <<>>, FALSE) /\ given = <<>> /\ deck = <<>> /\ total = 0 /\ valid = FALSE /\ score = 0

MCNext ==
  \/ ReviewNext /\ UNCHANGED storyVars
  \/ Storyboard /\ UNCHANGED reviewVars
  \/ WritePrompt /\ UNCHANGED reviewVars

MCSpec == MCInit /\ [][MCNext]_<<reviewVars, storyVars>>
=============================================================================
