--------------------------- MODULE TerminalProofs ---------------------------
(***************************************************************************)
(* The terminal, proved for lines, prompts and screens of every size, any  *)
(* characters and commands, and any number of lines entered.               *)
(***************************************************************************)
EXTENDS Terminal, StringsProofs, ScreenProofs

Char == Letters \cup {SPACE}
Pairs == [alias : StringOver(Char), command : StringOver(Char)]

\* The line, the prompt and the cursor.  The prompt is never empty, or the
\* cursor could step to the left of it.
Placed ==
  /\ input \in StringOver(Char) /\ Fits(input)
  /\ prompt_string \in StringOver(Char) /\ Fits(prompt_string)
  /\ prompt_string_length > 0
  /\ CursorInStep /\ PromptOnScreen

\* The aliases.
Listed ==
  /\ aliases \in Seq(Pairs)
  /\ \A i \in DOMAIN aliases : Fits(aliases[i].alias) /\ Fits(aliases[i].command)
  /\ AliasesDistinct

\* The heap blocks, in numbers that the count is right for.
Counted ==
  /\ cmdhistory \in Nat /\ lost \in Nat /\ allocated \in Int
  /\ BlocksAccounted

\* What holds in every state.
IInv == Placed /\ Listed /\ Counted

-----------------------------------------------------------------------------
(* The parts of a line.                                                      *)

\* The first word of a line and what follows it are made of its characters,
\* and the word has no space.
LEMMA Parts ==
  ASSUME NEW t \in Seq(Char)
  PROVE  /\ Word(t) \in Seq(Char) /\ Params(t) \in Seq(Char)
         /\ Word(t) \in Seq(Letters)
         /\ (t # <<>> /\ t[1] # SPACE => Word(t) # <<>>)
<1> DEFINE ends == {i \in DOMAIN t : t[i] = SPACE}
<1>1. ends \in SUBSET Nat /\ Len(t) \in Nat /\ DOMAIN t = 1 .. Len(t)
  OBVIOUS
<1>2. PICK n \in 0 .. Len(t) :
        /\ Word(t) = SubSeq(t, 1, n)
        /\ \A i \in 1 .. n : t[i] # SPACE
        /\ (t # <<>> /\ t[1] # SPACE => n > 0)
  <2>1. CASE ends = {}
    <3>1. Word(t) = t /\ SubSeq(t, 1, Len(t)) = t
      BY <2>1 DEF Word
    <3>2. \A i \in 1 .. Len(t) : t[i] # SPACE
      BY <1>1, <2>1
    <3>3. t # <<>> => Len(t) > 0
      BY <1>1
    <3>4. Len(t) \in 0 .. Len(t)
      BY <1>1
    <3> HIDE DEF ends
    <3> QED  BY <3>1, <3>2, <3>3, <3>4
  <2>2. CASE ends # {}
    <3> DEFINE i == CHOOSE i \in ends : \A j \in ends : i <= j
    <3>1. i \in ends /\ \A j \in ends : i <= j
      BY <1>1, <2>2, Least
    <3>2. Word(t) = SubSeq(t, 1, i - 1)
      BY <2>2 DEF Word
    <3> HIDE DEF i
    <3>3. i \in 1 .. Len(t) /\ i - 1 \in 0 .. Len(t) /\ t[i] = SPACE
      BY <1>1, <3>1
    <3>4. \A j \in 1 .. i - 1 : t[j] # SPACE
      BY <1>1, <3>1, <3>3
    <3>5. t[1] # SPACE => i - 1 > 0
      BY <3>3
    <3> QED  BY <3>2, <3>3, <3>4, <3>5
  <2> QED  BY <2>1, <2>2
<1> HIDE DEF ends
<1>3. Word(t) \in Seq(Char) /\ Len(Word(t)) = n
  BY <1>1, <1>2
<1>4. Word(t) \in Seq(Letters)
  <2>1. ASSUME NEW i \in 1 .. n PROVE Word(t)[i] = t[i] /\ t[i] \in Char
    <3>1. SubSeq(t, 1, n)[i] = t[i] /\ i \in 1 .. Len(t)
      BY <1>1
    <3> QED  BY <1>2, <3>1
  <2>2. ASSUME NEW i \in 1 .. n PROVE Word(t)[i] \in Letters
    <3>1. t[i] # SPACE
      BY <1>2
    <3>2. Word(t)[i] = t[i] /\ t[i] \in Char
      BY <2>1
    <3> HIDE DEF Char
    <3> QED  BY <3>1, <3>2 DEF Char
  <2>3. Word(t) = [i \in 1 .. n |-> Word(t)[i]]
    BY <1>3
  <2>4. [i \in 1 .. n |-> Word(t)[i]] \in [1 .. n -> Letters]
    BY <2>2
  <2> QED  BY <2>3, <2>4
<1>5. Params(t) \in Seq(Char)
  BY <1>1, <1>3 DEF Params, Char
<1>6. ASSUME t # <<>>, t[1] # SPACE PROVE Word(t) # <<>>
  <2>1. n > 0
    BY <1>2, <1>6
  <2> QED  BY <1>3, <2>1
<1> QED  BY <1>3, <1>4, <1>5, <1>6

\* find_alias finds an alias of that name, if there is one.
LEMMA Finds ==
  ASSUME IInv, NEW w, Named(w) # {}
  PROVE  /\ find_alias(w) \in 1 .. Len(aliases)
         /\ aliases[find_alias(w)].alias.text = w
<1>1. Named(w) \in SUBSET Nat
  BY DEF Named, IInv, Listed
<1>2. \E i \in Named(w) : \A j \in Named(w) : i <= j
  BY <1>1, Least
<1>3. find_alias(w) \in Named(w)
  BY <1>2 DEF find_alias
<1> QED  BY <1>3 DEF Named, IInv, Listed

\* The line that is run, and what follows its first word.
LEMMA ResolvedParts ==
  ASSUME IInv
  PROVE  Resolved \in Seq(Char) /\ params \in Seq(Char)
<1>1. input.text \in Seq(Char)
  BY DEF IInv, Placed, StringOver
<1>2. Resolved \in Seq(Char)
  <2> DEFINE w == Word(input.text)
  <2>1. CASE w \notin DOMAIN commands /\ Named(w) # {}
    <3>1. Resolved = aliases[find_alias(w)].command.text
      BY <2>1 DEF Resolved
    <3> HIDE DEF w
    <3>2. find_alias(w) \in 1 .. Len(aliases)
      BY <2>1, Finds
    <3>3. aliases[find_alias(w)] \in Pairs
      BY <3>2 DEF IInv, Listed
    <3> QED  BY <3>1, <3>3 DEF Pairs, StringOver
  <2>2. CASE ~(w \notin DOMAIN commands /\ Named(w) # {})
    BY <1>1, <2>2 DEF Resolved
  <2> QED  BY <2>1, <2>2
<1> QED  BY <1>2, Parts DEF params

-----------------------------------------------------------------------------
(* The steps.                                                                *)

\* A string that is cleared keeps its bytes.
LEMMA ClearFits ==
  ASSUME NEW S, NEW s \in StringOver(S), Fits(s)
  PROVE  /\ string_clear(s) \in StringOver(S) /\ Fits(string_clear(s))
         /\ string_clear(s).text = <<>> /\ Len(string_clear(s).text) = 0
BY DEF string_clear, StringOver, Fits

\* writeline goes on to a new row at least once.
LEMMA Rows ==
  ASSUME NEW n \in Nat
  PROVE  writeline(n) \in Nat \ {0}
<1>1. COLUMNS - 1 \in Nat \ {0}
  BY ScreenConstants
<1>2. CASE n = 0
  BY <1>2 DEF writeline, RowsBefore
<1>3. CASE n # 0
  <2>1. PICK k \in Nat : k = n - 1
    BY <1>3
  <2>2. PICK m \in Nat \ {0} : m = COLUMNS - 1
    BY <1>1
  <2>3. k \div m \in Nat
    BY Division
  <2> QED  BY <1>3, <2>1, <2>2, <2>3 DEF writeline, RowsBefore
<1> QED  BY <1>2, <1>3

\* new_prompt leaves an empty line behind the prompt, on a row of the screen,
\* whether it was called on one or, by cls, above the first.
LEMMA PromptedKeeps ==
  ASSUME Placed, NEW y \in -1 .. ROWS - 1, NEW times \in Nat \ {0}, NEW cells, NEW end,
         Prompted(y, cells, end, times),
         prompt_string' \in StringOver(Char), Fits(prompt_string'),
         prompt_string_length' = Len(prompt_string'.text), prompt_string_length' > 0
  PROVE  Placed'
<1>1. /\ input' = string_clear(input) /\ input_ptr' = 0
      /\ cursor_y' = prompt_y' /\ cursor_x' = prompt_string_length'
      /\ prompt_y' = IF y + times > ROWS - 1 THEN ROWS - 1 ELSE y + times
  BY DEF Prompted
<1>2. input' \in StringOver(Char) /\ Fits(input') /\ Len(input'.text) = 0
  BY <1>1, ClearFits DEF Placed
<1>3. CursorInStep'
  <2>1. prompt_string_length' \in Nat
    BY DEF StringOver
  <2> QED  BY <1>1, <1>2, <2>1 DEF CursorInStep
<1>4. PromptOnScreen'
  BY <1>1, ScreenConstants DEF PromptOnScreen
<1> QED  BY <1>2, <1>3, <1>4 DEF Placed, Fits

\* The same with the prompt as it was.
LEMMA NewPromptKeeps ==
  ASSUME Placed, NEW times \in Nat \ {0}, NewPrompt(times)
  PROVE  Placed'
<1>1. /\ prompt_string' = prompt_string /\ prompt_string_length' = prompt_string_length
      /\ new_prompt(times)
  BY DEF NewPrompt, SamePrompt
<1>2. prompt_y \in -1 .. ROWS - 1
  BY ScreenConstants DEF Placed, PromptOnScreen
<1>3. PICK end : Prompted(prompt_y, shown, end, times)
  BY <1>1 DEF new_prompt
<1>4. /\ prompt_string' \in StringOver(Char) /\ Fits(prompt_string')
      /\ prompt_string_length' = Len(prompt_string'.text) /\ prompt_string_length' > 0
  BY <1>1 DEF Placed, CursorInStep
<1> QED  BY <1>2, <1>3, <1>4, PromptedKeeps

\* The aliases are right as long as they do not change.
LEMMA ListedKept ==
  ASSUME Listed, UNCHANGED aliases
  PROVE  Listed'
BY DEF Listed, AliasesDistinct, Named

\* The number of blocks that BlocksAccounted expects.
Count(lines, entries, losses) ==
  2 * (2 + lines + 2 * entries + losses) + (IF lines = 0 THEN 1 ELSE lines)
  + (IF entries = 0 THEN 1 ELSE entries) + entries

\* The blocks are that many before and after a step.
LEMMA Counting ==
  /\ Len(aliases) \in Nat /\ cmdhistory \in Nat /\ lost \in Nat =>
       Blocks = Count(cmdhistory, Len(aliases), lost)
  /\ Len(aliases') \in Nat /\ cmdhistory' \in Nat /\ lost' \in Nat =>
       Blocks' = Count(cmdhistory', Len(aliases'), lost')
BY DEF Blocks, Count, STR, ELEMENT

\* A line more in the history takes a string, and an element unless it is
\* the first; the aliases grow by none or one, and a command may lose a string.
LEMMA CountedBy ==
  ASSUME Counted, NEW a \in Nat, NEW e \in {0, 1}, NEW d \in {0, 1},
         Len(aliases) = a, Len(aliases') = a + e, UNCHANGED undefined,
         cmdhistory' = cmdhistory + 1, lost' = lost + d,
         allocated' = allocated + Kept + d * STR
                      + e * (2 * STR + ELEMENT + (IF a = 0 THEN 0 ELSE ELEMENT))
  PROVE  Counted'
<1>1. /\ cmdhistory \in Nat /\ lost \in Nat /\ allocated \in Int
      /\ cmdhistory' \in Nat /\ lost' \in Nat /\ allocated' \in Int
  BY DEF Counted, Kept, STR, ELEMENT
<1>2. ASSUME ~undefined' PROVE allocated' = Blocks'
  <2>1. allocated = Count(cmdhistory, a, lost)
    BY <1>1, <1>2, Counting DEF Counted, BlocksAccounted
  <2>2. allocated' = Count(cmdhistory + 1, a + e, lost + d)
    <3>1. CASE e = 0
      BY <1>1, <2>1, <3>1 DEF Count, Kept, STR, ELEMENT
    <3>2. CASE e = 1
      BY <1>1, <2>1, <3>2 DEF Count, Kept, STR, ELEMENT
    <3> QED  BY <3>1, <3>2
  <2> QED  BY <1>1, <2>2, Counting
<1>3. BlocksAccounted'
  BY <1>2 DEF BlocksAccounted
<1> QED  BY <1>1, <1>3 DEF Counted

\* A command that adds no alias.
LEMMA CountedKept ==
  ASSUME Counted, Listed, UNCHANGED <<aliases, undefined>>,
         cmdhistory' = cmdhistory + 1, NEW d \in {0, 1}, lost' = lost + d,
         allocated' = allocated + d * STR + Kept
  PROVE  Counted'
<1>1. PICK a \in Nat : a = Len(aliases) /\ Len(aliases') = a + 0
  BY DEF Listed
<1>2. allocated' = allocated + Kept + d * STR
                   + 0 * (2 * STR + ELEMENT + (IF a = 0 THEN 0 ELSE ELEMENT))
  BY DEF Counted, Kept, STR, ELEMENT
<1> QED  BY <1>1, <1>2, CountedBy

\* A command that prints and frees what it takes.
LEMMA PrintsKeeps ==
  ASSUME IInv, cmdhistory' = cmdhistory + 1, NEW rows \in SUBSET (Nat \ {0}), NEW n \in Nat,
         Prints(rows, n, n)
  PROVE  IInv'
<1>1. Placed'
  BY NewPromptKeeps DEF Prints, IInv
<1>2. Listed'
  BY ListedKept DEF Prints, IInv
<1>3. Counted'
  <2>1. allocated' = allocated + 0 * STR + Kept /\ lost' = lost + 0
    BY DEF Prints, IInv, Counted, Kept, STR, ELEMENT
  <2> QED  BY <2>1, CountedKept DEF Prints, IInv, Listed
<1> QED  BY <1>1, <1>2, <1>3 DEF IInv

\* disk and syslog keep everything but a string.
LEMMA LosingKeeps ==
  ASSUME IInv, cmdhistory' = cmdhistory + 1, Losing
  PROVE  IInv'
<1>1. PICK rows \in 7 .. ROWS + 7 : NewPrompt(rows)
  BY DEF Losing
<1>2. Placed'
  <2>1. rows \in Nat \ {0}
    BY ScreenConstants
  <2> QED  BY <1>1, <2>1, NewPromptKeeps DEF IInv
<1>3. Listed'
  BY ListedKept DEF Losing, IInv
<1>4. Counted'
  <2>1. allocated' = allocated + 1 * STR + Kept /\ lost' = lost + 1
    BY DEF Losing, IInv, Counted, Kept, STR, ELEMENT
  <2> QED  BY <2>1, CountedKept DEF Losing, IInv, Listed
<1> QED  BY <1>2, <1>3, <1>4 DEF IInv

\* cls comes from above the first row to the first.
LEMMA ClsKeeps ==
  ASSUME IInv, cmdhistory' = cmdhistory + 1, cls
  PROVE  IInv'
<1>1. /\ prompt_string' \in StringOver(Char) /\ Fits(prompt_string')
      /\ prompt_string_length' = Len(prompt_string'.text) /\ prompt_string_length' > 0
  BY DEF cls, SamePrompt, IInv, Placed, CursorInStep
<1>2. Placed'
  <2>1. Prompted(-1, {}, 0, 1) /\ -1 \in -1 .. ROWS - 1 /\ Placed
    BY ScreenConstants DEF cls, IInv
  <2> QED  BY <1>1, <2>1, PromptedKeeps
<1>3. Listed'
  BY ListedKept DEF cls, IInv
<1>4. Counted'
  <2>1. allocated' = allocated + 0 * STR + Kept /\ lost' = lost + 0
    BY DEF cls, IInv, Counted, Kept, STR, ELEMENT
  <2> QED  BY <2>1, CountedKept DEF cls, IInv, Listed
<1> QED  BY <1>2, <1>3, <1>4 DEF IInv

\* The new prompt of cprompt has at least a character, and its length.
LEMMA CpromptKeeps ==
  ASSUME IInv, cmdhistory' = cmdhistory + 1, cprompt
  PROVE  IInv'
<1>1. Placed'
  <2>1. CASE params # <<>>
    <3>1. params \in Seq(Char)
      BY ResolvedParts
    <3> DEFINE text == [i \in DOMAIN params |-> SPACE]
    <3>2. text \in Seq(Char) /\ Len(text) = Len(params) /\ Len(params) > 0
      BY <2>1, <3>1 DEF Char
    <3>3. /\ prompt_string' = string_set(prompt_string, text)
          /\ prompt_string_length' = Len(params) /\ new_prompt(1)
      BY <2>1 DEF cprompt
    <3> HIDE DEF text
    <3>4. /\ prompt_string' \in StringOver(Char) /\ Fits(prompt_string')
          /\ prompt_string'.text = text
      BY <3>2, <3>3, SetFits DEF IInv, Placed
    <3>5. PICK end : Prompted(prompt_y, shown, end, 1)
      BY <3>3 DEF new_prompt
    <3>6. prompt_y \in -1 .. ROWS - 1 /\ Placed
      BY ScreenConstants DEF IInv, Placed, PromptOnScreen
    <3> QED  BY <3>2, <3>3, <3>4, <3>5, <3>6, PromptedKeeps
  <2>2. CASE params = <<>>
    <3>1. NewPrompt(2)
      BY <2>2 DEF cprompt
    <3> QED  BY <3>1, NewPromptKeeps DEF IInv
  <2> QED  BY <2>1, <2>2
<1>2. Listed'
  BY ListedKept DEF cprompt, IInv
<1>3. Counted'
  <2>1. allocated' = allocated + 0 * STR + Kept /\ lost' = lost + 0
    BY DEF cprompt, IInv, Counted, Kept, STR, ELEMENT
  <2> QED  BY <2>1, CountedKept DEF cprompt, IInv, Listed
<1> QED  BY <1>1, <1>2, <1>3 DEF IInv

\* What alias copies, from a line with a name and a command.
LEMMA AliasParts ==
  ASSUME IInv
  PROVE  /\ [alias |-> newalias, command |-> newcmd] \in Pairs
         /\ Fits(newalias) /\ Fits(newcmd)
         /\ newalias.text = name
         /\ (HasName => name \in Seq(Letters) \ {<<>>})
<1>1. params \in Seq(Char)
  BY ResolvedParts
<1>2. name \in Seq(Char) /\ Params(params) \in Seq(Char)
  BY <1>1, Parts DEF name
<1>3. string_new \in StringOver(Char) /\ Fits(string_new) /\ string_new.text = <<>>
  BY DEF string_new, string_newsz, StringOver, Fits
<1>4. newalias \in StringOver(Char) /\ Fits(newalias) /\ newalias.text = <<>> \o name
  BY <1>2, <1>3, CopiedFits DEF newalias
<1>5. newcmd \in StringOver(Char) /\ Fits(newcmd)
  BY <1>2, <1>3, CopiedFits DEF newcmd
<1>6. <<>> \o name = name
  BY <1>2
<1>7. HasName => name \in Seq(Letters) \ {<<>>}
  BY <1>1, Parts DEF HasName, name
<1> QED  BY <1>4, <1>5, <1>6, <1>7 DEF Pairs

\* The names are words, and no two are the same.
Names(list) ==
  /\ \A i \in 1 .. Len(list) : list[i].alias.text \in Seq(Letters) \ {<<>>}
  /\ \A i, j \in 1 .. Len(list) : list[i].alias.text = list[j].alias.text => i = j

\* That is AliasesDistinct, before and after a step.
LEMMA Distinct ==
  /\ aliases \in Seq(Pairs) => (AliasesDistinct <=> Names(aliases))
  /\ aliases' \in Seq(Pairs) => (AliasesDistinct' <=> Names(aliases'))
BY DEF AliasesDistinct, Named, Names

\* An alias that is there already gets another command.
LEMMA AliasAgainKeeps ==
  ASSUME IInv, cmdhistory' = cmdhistory + 1, AliasAgain
  PROVE  IInv'
<1> DEFINE i == find_alias(name)
<1>1. Placed'
  BY NewPromptKeeps DEF AliasAgain, IInv
<1>2. i \in 1 .. Len(aliases)
  BY Finds DEF AliasAgain
<1>3. aliases' = [aliases EXCEPT ![i].command = newcmd]
  BY DEF AliasAgain
<1> HIDE DEF i
<1>4. aliases \in Seq(Pairs) /\ newcmd \in StringOver(Char) /\ Fits(newcmd)
  BY AliasParts DEF IInv, Listed, Pairs
<1>5. aliases' \in Seq(Pairs) /\ Len(aliases') = Len(aliases)
  <2>1. aliases[i] \in Pairs
    BY <1>2, <1>4
  <2>2. [aliases[i] EXCEPT !.command = newcmd] \in Pairs
    BY <1>4, <2>1 DEF Pairs
  <2>3. PICK p \in Pairs : p = [aliases[i] EXCEPT !.command = newcmd]
    BY <2>2
  <2>4. aliases' = [aliases EXCEPT ![i] = p]
    BY <1>3, <2>3
  <2> QED  BY <1>2, <1>4, <2>4
<1>6. ASSUME NEW j \in 1 .. Len(aliases)
      PROVE  /\ aliases'[j].alias = aliases[j].alias
             /\ aliases'[j].command = IF j = i THEN newcmd ELSE aliases[j].command
  BY <1>2, <1>3, <1>4 DEF Pairs
<1>7. Listed'
  <2>1. Names(aliases)
    BY <1>4, Distinct DEF IInv, Listed
  <2>2. Names(aliases')
    BY <1>5, <1>6, <2>1 DEF Names
  <2>3. AliasesDistinct'
    BY <1>5, <2>2, Distinct
  <2>4. \A j \in 1 .. Len(aliases) : Fits(aliases[j].alias) /\ Fits(aliases[j].command)
    BY <1>4 DEF IInv, Listed
  <2>5. \A j \in DOMAIN aliases' : Fits(aliases'[j].alias) /\ Fits(aliases'[j].command)
    BY <1>4, <1>5, <1>6, <2>4
  <2> QED  BY <1>5, <2>3, <2>5 DEF Listed, Fits
<1>8. Counted'
  <2>1. allocated' = allocated + Kept
    BY DEF AliasAgain, IInv, Counted, Kept, STR, ELEMENT
  <2>2. PICK a \in Nat : a = Len(aliases) /\ Len(aliases') = a + 0
    BY <1>4, <1>5
  <2>3. allocated' = allocated + Kept + 0 * STR
                     + 0 * (2 * STR + ELEMENT + (IF a = 0 THEN 0 ELSE ELEMENT))
    BY <2>1 DEF IInv, Counted, Kept, STR, ELEMENT
  <2>4. Counted /\ UNCHANGED undefined /\ lost' = lost + 0
    BY DEF AliasAgain, IInv, Counted
  <2> QED  BY <2>2, <2>3, <2>4, CountedBy
<1> QED  BY <1>1, <1>7, <1>8 DEF IInv

\* A new alias has a name that none had.
LEMMA AliasNewKeeps ==
  ASSUME IInv, cmdhistory' = cmdhistory + 1, AliasNew
  PROVE  IInv'
<1>1. Placed'
  BY NewPromptKeeps DEF AliasNew, IInv
<1>2. PICK p \in Pairs : /\ p = [alias |-> newalias, command |-> newcmd]
                         /\ Fits(p.alias) /\ Fits(p.command)
                         /\ p.alias.text = name /\ name \in Seq(Letters) \ {<<>>}
  BY AliasParts DEF AliasNew
<1>3. PICK n \in Nat : n = Len(aliases)
  BY DEF IInv, Listed
<1>4. /\ aliases \in Seq(Pairs) /\ aliases' = Append(aliases, p)
      /\ aliases' \in Seq(Pairs) /\ Len(aliases') = n + 1
      /\ aliases'[n + 1] = p /\ \A i \in 1 .. n : aliases'[i] = aliases[i]
  BY <1>2, <1>3 DEF AliasNew, IInv, Listed
<1>5. Listed'
  <2>1. Names(aliases)
    BY <1>4, Distinct DEF IInv, Listed
  <2>2. \A i \in 1 .. n : aliases[i].alias.text # name
    BY <1>3, <1>4 DEF AliasNew, Named
  <2>3. Names(aliases')
    BY <1>2, <1>3, <1>4, <2>1, <2>2 DEF Names
  <2>4. AliasesDistinct'
    BY <1>4, <2>3, Distinct
  <2>5. \A i \in 1 .. n : Fits(aliases[i].alias) /\ Fits(aliases[i].command)
    BY <1>3, <1>4 DEF IInv, Listed
  <2>6. \A i \in DOMAIN aliases' : Fits(aliases'[i].alias) /\ Fits(aliases'[i].command)
    BY <1>2, <1>4, <2>5
  <2> QED  BY <1>4, <2>4, <2>6 DEF Listed, Fits
<1>6. Counted'
  <2>1. allocated' = allocated + Kept + 0 * STR
                     + 1 * (2 * STR + ELEMENT + (IF n = 0 THEN 0 ELSE ELEMENT))
    <3>1. aliases = <<>> <=> n = 0
      BY <1>3, <1>4
    <3> QED  BY <3>1 DEF AliasNew, IInv, Counted, Kept, STR, ELEMENT
  <2>2. Counted /\ UNCHANGED undefined /\ lost' = lost + 0
    BY DEF AliasNew, IInv, Counted
  <2> QED  BY <1>3, <1>4, <2>1, <2>2, CountedBy
<1> QED  BY <1>1, <1>5, <1>6 DEF IInv

\* The other ways through alias.
LEMMA AliasKeeps ==
  ASSUME IInv, cmdhistory' = cmdhistory + 1, alias
  PROVE  IInv'
<1>1. CASE AliasNone
  <2>1. Placed'
    <3>1. PICK rows \in 1 .. ROWS : NewPrompt(rows)
      BY <1>1 DEF AliasNone
    <3>2. rows \in Nat \ {0}
      BY ScreenConstants
    <3> QED  BY <3>1, <3>2, NewPromptKeeps DEF IInv
  <2>2. Listed'
    BY <1>1, ListedKept DEF AliasNone, IInv
  <2>3. Counted'
    <3>1. allocated' = allocated + 0 * STR + Kept /\ lost' = lost + 0
      BY <1>1 DEF AliasNone, IInv, Counted, Kept, STR, ELEMENT
    <3> QED  BY <1>1, <3>1, CountedKept DEF AliasNone, IInv
  <2> QED  BY <2>1, <2>2, <2>3 DEF IInv
<1>2. CASE AliasThroughNull
  <2>1. Placed'
    BY <1>2, NewPromptKeeps DEF AliasThroughNull, IInv
  <2>2. Listed'
    BY <1>2, ListedKept DEF AliasThroughNull, IInv
  <2>3. Counted'
    BY <1>2 DEF AliasThroughNull, IInv, Counted, BlocksAccounted
  <2> QED  BY <2>1, <2>2, <2>3 DEF IInv
<1> QED  BY <1>1, <1>2, AliasAgainKeeps, AliasNewKeeps DEF alias

\* A character goes to the end of the line, and the cursor after it.
LEMMA TypeKeeps ==
  ASSUME IInv, NEW c \in Char, Type(c)
  PROVE  IInv'
<1>1. /\ input' = string_addchar(input, c) /\ input_ptr' = input_ptr + 1
      /\ cursor_x' = cursor_x + 1
      /\ UNCHANGED <<prompt_string, prompt_string_length, prompt_y, cursor_y>>
      /\ UNCHANGED <<cmdhistory, aliases, undefined, allocated, lost>>
  BY DEF Type, Typing
<1>2. input \in StringOver(Char) /\ Fits(input)
  BY DEF IInv, Placed
<1>3. /\ input' \in StringOver(Char) /\ Fits(input')
      /\ input'.text = input.text \o <<c>>
  BY <1>1, <1>2, AddcharFits
<1>4. input.text \in Seq(Char) /\ Len(input'.text) = Len(input.text) + 1
  BY <1>2, <1>3 DEF StringOver
<1>5. Placed'
  <2>1. prompt_string.text \in Seq(Char)
    BY DEF IInv, Placed, StringOver
  <2>2. PICK n \in Nat : n = Len(input.text)
    BY <1>4
  <2>3. PICK p \in Nat : p = prompt_string_length
    BY <2>1 DEF IInv, Placed, CursorInStep
  <2>4. /\ input_ptr = n /\ p = Len(prompt_string.text)
        /\ cursor_x = p + n /\ cursor_y = prompt_y
    BY <2>2, <2>3 DEF IInv, Placed, CursorInStep
  <2>5. cursor_x' = p + (n + 1) /\ input_ptr' = n + 1
    <3>1. cursor_x' = (p + n) + 1 /\ input_ptr' = n + 1
      BY <1>1, <2>4
    <3> QED  BY <3>1
  <2>6. CursorInStep'
    BY <1>1, <1>4, <2>2, <2>3, <2>4, <2>5 DEF CursorInStep
  <2> QED  BY <1>1, <1>3, <2>6 DEF IInv, Placed, PromptOnScreen, Fits
<1>6. Listed' /\ Counted'
  BY <1>1, ListedKept DEF IInv, Counted, BlocksAccounted, Blocks
<1> QED  BY <1>5, <1>6 DEF IInv

\* The last character goes from the line, and the cursor back to where it was;
\* on an empty line the cursor stays behind the prompt, which is not empty.
LEMMA BackspaceKeeps ==
  ASSUME IInv, Backspace
  PROVE  IInv'
<1>1. /\ CursorBack
      /\ UNCHANGED <<prompt_string, prompt_string_length, prompt_y, cursor_y>>
      /\ UNCHANGED <<cmdhistory, aliases, undefined, allocated, lost>>
  BY DEF Backspace, Typing
<1>2. /\ input \in StringOver(Char) /\ Fits(input) /\ input.text \in Seq(Char)
      /\ prompt_string.text \in Seq(Char)
  BY DEF IInv, Placed, StringOver
<1>3. PICK n \in Nat : n = Len(input.text)
  BY <1>2
<1>4. PICK p \in Nat \ {0} : p = prompt_string_length
  <2>1. Len(prompt_string.text) \in Nat
    BY <1>2
  <2> QED  BY <2>1 DEF IInv, Placed, CursorInStep
<1>5. /\ input_ptr = n /\ p = Len(prompt_string.text)
      /\ cursor_x = p + n /\ cursor_y = prompt_y
  BY <1>3, <1>4 DEF IInv, Placed, CursorInStep
<1>6. /\ input' \in StringOver(Char) /\ Fits(input')
      /\ input_ptr' = Len(input'.text)
      /\ input_ptr' = IF n > 0 THEN n - 1 ELSE 0
  <2>1. CASE n > 0
    <3>1. PICK k \in Nat : k = n - 1 /\ k < n
      BY <2>1
    <3> DEFINE text == SubSeq(input.text, 1, k)
    <3>2. input_ptr' = k /\ input' = [input EXCEPT !.text = text]
      BY <1>5, <2>1, <3>1 DEF Backspace, Erase
    <3>3. text \in Seq(Char)
      BY <1>2, <1>3, <3>1
    <3>4. Len(text) = k
      BY <1>2, <1>3, <3>1
    <3> HIDE DEF text
    <3>5. input'.text = text /\ input'.size = input.size /\ input' \in StringOver(Char)
      BY <1>2, <3>2, <3>3 DEF StringOver
    <3>6. Fits(input')
      <4>1. input.size \in Nat
        BY <1>2 DEF StringOver
      <4> QED  BY <1>2, <1>3, <3>1, <3>4, <3>5, <4>1 DEF Fits
    <3> QED  BY <2>1, <3>1, <3>2, <3>4, <3>5, <3>6
  <2>2. CASE ~(n > 0)
    BY <1>2, <1>3, <1>5, <2>2 DEF Backspace, line
  <2> QED  BY <2>1, <2>2
<1>7. cursor_x' = p + input_ptr'
  <2>1. CASE n > 0
    <3>1. cursor_x - 1 \notin 0 .. p - 1 /\ cursor_x - 1 = p + (n - 1)
      BY <1>5, <2>1
    <3> QED  BY <1>1, <1>4, <1>6, <2>1, <3>1 DEF CursorBack
  <2>2. CASE ~(n > 0)
    <3>1. cursor_x - 1 \in 0 .. p - 1
      BY <1>5, <2>2
    <3> QED  BY <1>1, <1>4, <1>6, <2>2, <3>1 DEF CursorBack
  <2> QED  BY <2>1, <2>2
<1>8. Placed'
  <2>1. CursorInStep'
    BY <1>1, <1>4, <1>5, <1>6, <1>7 DEF CursorInStep
  <2> QED  BY <1>1, <1>6, <2>1 DEF IInv, Placed, PromptOnScreen, Fits
<1>9. Listed' /\ Counted'
  BY <1>1, ListedKept DEF IInv, Counted, BlocksAccounted, Blocks
<1> QED  BY <1>8, <1>9 DEF IInv

\* Each command with what it prints.
LEMMA RunKeeps ==
  ASSUME IInv, cmdhistory' = cmdhistory + 1, NEW what, Run(what)
  PROVE  IInv'
<1>1. params \in Seq(Char) /\ Word(Resolved) \in Seq(Char) /\ cmdhistory \in Nat
  BY ResolvedParts, Parts DEF IInv, Counted
<1>2. /\ 1 + writeline(Len(params)) \in Nat \ {0} /\ 2 + writeline(Len(params)) \in Nat \ {0}
      /\ 2 + writeline(Len(Word(Resolved))) \in Nat \ {0}
  <2>1. Len(params) \in Nat /\ Len(Word(Resolved)) \in Nat
    BY <1>1
  <2>2. writeline(Len(params)) \in Nat /\ writeline(Len(Word(Resolved))) \in Nat
    BY <2>1, Rows
  <2> QED  BY <2>2
<1>3. ASSUME NEW n \in Nat \ {0}, NEW k \in Nat, Prints({n}, k, k)
      PROVE  IInv'
  BY <1>3, PrintsKeeps
<1>4. STR \in Nat /\ 2 * STR \in Nat /\ 0 \in Nat
  BY DEF STR
<1>5. CASE NotFound
  BY <1>2, <1>3, <1>4, <1>5 DEF NotFound
<1>6. CASE echo
  BY <1>2, <1>3, <1>4, <1>6 DEF echo
<1>7. CASE about \/ version
  BY <1>3, <1>4, <1>7 DEF about, version
<1>8. CASE help
  <2>1. CASE Prints({9}, STR, STR)
    BY <1>3, <1>4, <2>1
  <2>2. CASE Prints({6, 7}, 0, 0)
    <3>1. {6, 7} \in SUBSET (Nat \ {0})
      OBVIOUS
    <3> QED  BY <1>4, <2>2, <3>1, PrintsKeeps
  <2>3. CASE Prints(2 + writeline(Len(params)) .. 3 + writeline(Len(params)), STR, STR)
    <3>1. 2 + writeline(Len(params)) .. 3 + writeline(Len(params)) \in SUBSET (Nat \ {0})
      BY <1>2
    <3> QED  BY <1>4, <2>3, <3>1, PrintsKeeps
  <2> QED  BY <1>8, <2>1, <2>2, <2>3 DEF help
<1>9. CASE history
  <2>1. 3 + cmdhistory + 1 .. ROWS + 4 + cmdhistory \in SUBSET (Nat \ {0})
    BY <1>1, ScreenConstants
  <2> QED  BY <1>4, <1>9, <2>1, PrintsKeeps DEF history
<1>10. CASE cpuinfo \/ memory
  BY <1>3, <1>4, <1>10 DEF cpuinfo, memory
<1>11. CASE time
  <2>1. {3, 4} \in SUBSET (Nat \ {0})
    OBVIOUS
  <2> QED  BY <1>4, <1>11, <2>1, PrintsKeeps DEF time
<1>12. CASE tcolor
  BY <1>3, <1>4, <1>12 DEF tcolor
<1>13. CASE disk \/ syslog
  BY <1>13, LosingKeeps DEF disk, syslog
<1>14. CASE Prints({1}, 0, 0)
  BY <1>3, <1>4, <1>14
<1> QED
  BY <1>5, <1>6, <1>7, <1>8, <1>9, <1>10, <1>11, <1>12, <1>13, <1>14,
     ClsKeeps, CpromptKeeps, AliasKeeps DEF Run

\* Every step of the terminal.
LEMMA NextKeeps ==
  ASSUME IInv, [Next]_vars
  PROVE  IInv'
<1>1. CASE UNCHANGED vars
  <2>1. /\ UNCHANGED <<input, input_ptr, prompt_string, prompt_string_length, prompt_y>>
        /\ UNCHANGED <<cursor_x, cursor_y, cmdhistory, aliases, undefined, allocated, lost>>
    BY <1>1 DEF vars, line, display
  <2>2. Placed'
    BY <2>1 DEF IInv, Placed, CursorInStep, PromptOnScreen, Fits
  <2>3. Listed' /\ Counted'
    BY <2>1, ListedKept DEF IInv, Counted, BlocksAccounted, Blocks
  <2> QED  BY <2>2, <2>3 DEF IInv
<1>2. ASSUME NEW c \in Letters \cup {SPACE}, Type(c) PROVE IInv'
  BY <1>2, TypeKeeps DEF Char
<1>3. CASE Backspace
  BY <1>3, BackspaceKeeps
<1>4. CASE EnterNothing
  <2>1. Placed'
    BY <1>4, NewPromptKeeps DEF EnterNothing, IInv
  <2>2. Listed' /\ Counted'
    BY <1>4, ListedKept DEF EnterNothing, IInv, Counted, BlocksAccounted, Blocks
  <2> QED  BY <2>1, <2>2 DEF IInv
<1>5. CASE parse_input
  <2>1. PICK what \in Found : Run(what)
    BY <1>5 DEF parse_input
  <2>2. cmdhistory' = cmdhistory + 1
    BY <1>5 DEF parse_input
  <2> QED  BY <2>1, <2>2, RunKeeps
<1>6. CASE Ended
  BY <1>1, <1>6 DEF Ended
<1> QED  BY <1>1, <1>2, <1>3, <1>4, <1>5, <1>6 DEF Next

\* What init_terminal sets up.
LEMMA InitKeeps ==
  ASSUME init_terminal
  PROVE  IInv
<1>1. /\ input = string_newsz(TERMINAL_INPUT_SIZE) /\ input_ptr = 0
      /\ prompt_string = string_set(string_new, PROMPT_STRING)
      /\ prompt_string_length = Len(PROMPT_STRING) /\ prompt_y = PROMPT_START_Y
      /\ cursor_x = prompt_string_length /\ cursor_y = prompt_y
      /\ cmdhistory = 0 /\ aliases = <<>> /\ undefined = FALSE
      /\ allocated = 2 * ELEMENT + 2 * STR /\ lost = 0
  BY DEF init_terminal
<1>2. Placed
  <2>1. /\ input \in StringOver(Char) /\ Fits(input) /\ input.text = <<>>
        /\ string_new \in StringOver(Char) /\ Fits(string_new)
    BY <1>1, TerminalConstants DEF string_new, string_newsz, StringOver, Fits
  <2>2. PROMPT_STRING \in Seq(Char) /\ Len(PROMPT_STRING) \in Nat \ {0}
    BY TerminalConstants DEF Char
  <2>3. /\ prompt_string \in StringOver(Char) /\ Fits(prompt_string)
        /\ prompt_string.text = PROMPT_STRING
    BY <1>1, <2>1, <2>2, SetFits
  <2>4. CursorInStep
    BY <1>1, <2>1, <2>2, <2>3 DEF CursorInStep
  <2>5. PromptOnScreen
    BY <1>1, TerminalConstants DEF PromptOnScreen
  <2> QED  BY <1>1, <2>1, <2>2, <2>3, <2>4, <2>5 DEF Placed
<1>3. Listed
  BY <1>1 DEF Listed, AliasesDistinct, Named
<1>4. Counted
  <2>1. Len(aliases) = 0 /\ cmdhistory = 0 /\ lost = 0
    BY <1>1
  <2>2. Blocks = Count(0, 0, 0)
    BY <2>1, Counting
  <2>3. allocated = Count(0, 0, 0)
    BY <1>1 DEF Count, STR, ELEMENT
  <2> QED  BY <1>1, <2>1, <2>2, <2>3 DEF Counted, BlocksAccounted, STR, ELEMENT
<1> QED  BY <1>2, <1>3, <1>4 DEF IInv

-----------------------------------------------------------------------------
(* What is on the screen, and the bounds of the counters.                    *)

\* The cells that hold something are cells of the screen, and those that the
\* prompt and the line do not fill are the end of an earlier, longer line.
Drawn == shown \subseteq 0 .. COLUMNS * ROWS - 1 /\ reach \in Nat /\ LineShown

\* The counters.
Bounded ==
  /\ cmdhistory \in 0 .. LINES /\ allocated \in Nat
  /\ endterm \in BOOLEAN /\ undefined \in BOOLEAN

\* Column x of row y is x cells on, or less where the screen ends before.
LEMMA CellIs ==
  ASSUME NEW x \in Nat, NEW y \in 0 .. ROWS - 1
  PROVE  Cell(x, y) \in 0 .. COLUMNS * ROWS - 1 /\ Cell(x, y) <= x
<1>1. clamp(y, 0, ROWS - 1) = y
  BY ScreenConstants DEF clamp
<1>2. PICK last : last = COLUMNS * (ROWS - y) - 1
  OBVIOUS
<1>3. last \in 0 .. COLUMNS * ROWS - 1
  <2>1. COLUMNS * (ROWS - y) \in Nat \ {0}
    BY ScreenConstants, SMT
  <2>2. COLUMNS * (ROWS - y) = COLUMNS * ROWS - y * COLUMNS
    BY ScreenConstants, SMT
  <2>3. y * COLUMNS \in Nat
    BY ScreenConstants, SMT
  <2> QED  BY <1>2, <2>1, <2>2, <2>3, Sizes
<1>4. PICK column : column = clamp(x, 0, last)
  OBVIOUS
<1>5. column \in 0 .. last /\ column <= x /\ clamp(0, 0, last) = 0
  BY <1>3, <1>4 DEF clamp
<1>6. PICK base \in Int : base = y * (COLUMNS * 2)
  BY ScreenConstants, SMT
<1>7. get_position(x, y) = column * 2 + base /\ get_position(0, y) = 0 * 2 + base
  BY <1>1, <1>2, <1>4, <1>5, <1>6 DEF get_position
<1>8. get_position(x, y) - get_position(0, y) = column * 2
  BY <1>5, <1>7
<1>9. (column * 2) \div 2 = column
  BY <1>5
<1> QED  BY <1>3, <1>5, <1>8, <1>9, Sizes DEF Cell

\* What draw_prompt writes for a prompt and a line of n characters.
LEMMA DrawIs ==
  ASSUME NEW y \in 0 .. ROWS - 1, NEW n \in Nat
  PROVE  /\ draw_prompt({}, y, n) \subseteq 0 .. COLUMNS * ROWS - 1
         /\ \A c \in draw_prompt({}, y, n) : c < n
         /\ \A cells : draw_prompt(cells, y, n) = cells \cup draw_prompt({}, y, n)
         /\ draw_prompt({}, y, n + 1) = draw_prompt({}, y, n) \cup {Cell(n, y)}
<1>1. \A x \in 0 .. n - 1 : Cell(x, y) \in 0 .. COLUMNS * ROWS - 1 /\ Cell(x, y) < n
  <2> SUFFICES ASSUME NEW x \in 0 .. n - 1
               PROVE  Cell(x, y) \in 0 .. COLUMNS * ROWS - 1 /\ Cell(x, y) < n
    OBVIOUS
  <2>1. x \in Nat /\ x < n
    OBVIOUS
  <2>2. Cell(x, y) \in 0 .. COLUMNS * ROWS - 1 /\ Cell(x, y) <= x
    BY <2>1, CellIs
  <2>3. Cell(x, y) \in Int
    BY <2>2, Sizes
  <2> QED  BY <2>1, <2>2, <2>3
<1>2. 0 .. (n + 1) - 1 = (0 .. n - 1) \cup {n}
  OBVIOUS
<1> QED  BY <1>1, <1>2 DEF draw_prompt

\* new_prompt scrolls what was shown and draws the prompt below: what is left
\* of it ends where it did, so many rows further up.
LEMMA PromptedDraws ==
  ASSUME Placed', NEW y, NEW cells \in SUBSET (0 .. COLUMNS * ROWS - 1), NEW end \in Nat,
         \A c \in cells : c < end, NEW times \in Nat \ {0}, Prompted(y, cells, end, times)
  PROVE  Drawn'
<1>1. PICK rows : rows = times * COLUMNS
  OBVIOUS
<1>2. rows \in Nat
  BY <1>1, ScreenConstants, SMT
<1>3. PICK below : below = {c - rows : c \in {d \in cells : d >= rows}}
  OBVIOUS
<1>4. /\ shown' = IF endterm' THEN below ELSE draw_prompt(below, prompt_y', prompt_string_length')
      /\ reach' = IF end > rows THEN end - rows ELSE 0
      /\ input' = string_clear(input)
  BY <1>1, <1>3 DEF Prompted
<1>5. PICK limit \in Nat : limit = COLUMNS * ROWS
  BY Sizes
<1>6. below \subseteq 0 .. limit - 1 /\ \A c \in below : c < reach'
  <2> SUFFICES ASSUME NEW c \in cells, c >= rows
               PROVE  c - rows \in 0 .. limit - 1 /\ c - rows < reach'
    BY <1>3
  <2>1. c \in 0 .. limit - 1 /\ c < end
    BY <1>5
  <2> QED  BY <1>2, <1>4, <2>1
<1>7. reach' \in Nat
  BY <1>2, <1>4
<1>8. /\ prompt_y' \in 0 .. ROWS - 1 /\ prompt_string_length' \in Nat
      /\ Length' = prompt_string_length'
  <2>1. prompt_y' \in 0 .. ROWS - 1
    BY DEF Placed, PromptOnScreen
  <2>2. prompt_string_length' \in Nat
    BY DEF Placed, CursorInStep, StringOver
  <2>3. Len(input'.text) = 0
    <3>1. input_ptr' = Len(input'.text) /\ input_ptr' = 0
      BY DEF Placed, CursorInStep, Prompted
    <3> QED  BY <3>1
  <2>4. Length' = prompt_string_length' + Len(input'.text)
    BY DEF Length
  <2>5. Length' = prompt_string_length'
    <3>1. PICK q \in Nat : q = prompt_string_length'
      BY <2>2
    <3>2. Length' = q + 0
      BY <2>3, <2>4, <3>1, Zenon
    <3>3. q + 0 = q
      OBVIOUS
    <3> QED  BY <3>1, <3>2, <3>3, Zenon
  <2> QED  BY <2>1, <2>2, <2>5
<1>9. PICK drawn : drawn = draw_prompt({}, prompt_y', prompt_string_length')
  OBVIOUS
<1>10. drawn \subseteq 0 .. limit - 1
       /\ draw_prompt(below, prompt_y', prompt_string_length') = below \cup drawn
  BY <1>5, <1>8, <1>9, DrawIs
<1>11. shown' \subseteq 0 .. limit - 1
  BY <1>4, <1>6, <1>10
<1>12. LineShown'
  <2> SUFFICES ASSUME ~endterm', NEW c \in shown', c \notin drawn PROVE c < reach'
    BY <1>8, <1>9 DEF LineShown
  <2>1. c \in below
    BY <1>4, <1>10
  <2> QED  BY <1>6, <2>1
<1> QED  BY <1>5, <1>7, <1>11, <1>12 DEF Drawn

\* new_prompt, called where the line was.
LEMMA NewPromptDraws ==
  ASSUME Placed, Placed', Drawn, ~endterm, NEW times \in Nat \ {0}, new_prompt(times)
  PROVE  Drawn'
<1>1. PICK end : end = IF Length > reach THEN Length ELSE reach
  OBVIOUS
<1>2. Prompted(prompt_y, shown, end, times)
  BY <1>1 DEF new_prompt
<1>3. Length \in Nat /\ reach \in Nat /\ prompt_y \in 0 .. ROWS - 1
  <2>1. prompt_string_length \in Nat /\ Len(input.text) \in Nat
    BY DEF Placed, CursorInStep, StringOver
  <2> QED  BY <2>1 DEF Length, Drawn, Placed, PromptOnScreen
<1>4. ASSUME NEW c \in shown PROVE c < end
  <2>1. c \in Int
    BY Sizes DEF Drawn
  <2>2. CASE c \in draw_prompt({}, prompt_y, Length)
    <3>1. c < Length
      BY <1>3, <2>2, DrawIs
    <3> QED  BY <1>1, <1>3, <2>1, <3>1
  <2>3. CASE c \notin draw_prompt({}, prompt_y, Length)
    <3>1. c < reach
      BY <2>3 DEF Drawn, LineShown
    <3> QED  BY <1>1, <1>3, <2>1, <3>1
  <2> QED  BY <2>2, <2>3
<1>5. shown \in SUBSET (0 .. COLUMNS * ROWS - 1) /\ end \in Nat
  BY <1>1, <1>3 DEF Drawn
<1> QED  BY <1>2, <1>4, <1>5, PromptedDraws

\* A command ends with new_prompt, called where the line was or, by cls, on an
\* empty screen, and frees no more than it takes.
LEMMA RunLeaves ==
  ASSUME IInv, Bounded, NEW what, Run(what)
  PROVE  /\ (\E n \in Nat \ {0} : new_prompt(n)) \/ Prompted(-1, {}, 0, 1)
         /\ allocated' \in Nat /\ undefined' \in BOOLEAN
<1>1. params \in Seq(Char) /\ Word(Resolved) \in Seq(Char) /\ cmdhistory \in Nat
  BY ResolvedParts, Parts DEF IInv, Counted
<1>2. /\ writeline(Len(params)) \in Nat /\ 1 + writeline(Len(params)) \in Nat \ {0}
      /\ 2 + writeline(Len(params)) \in Nat \ {0}
      /\ 2 + writeline(Len(Word(Resolved))) \in Nat \ {0}
  <2>1. Len(params) \in Nat /\ Len(Word(Resolved)) \in Nat
    BY <1>1
  <2>2. writeline(Len(params)) \in Nat /\ writeline(Len(Word(Resolved))) \in Nat
    BY <2>1, Rows
  <2> QED  BY <2>2
<1>3. allocated \in Nat /\ undefined \in BOOLEAN /\ Kept \in Nat /\ STR \in Nat
  <2>1. allocated \in Nat /\ undefined \in BOOLEAN
    BY Zenon DEF Bounded
  <2>2. Kept \in Nat /\ STR \in Nat
    BY DEF Kept, STR, ELEMENT
  <2> QED  BY <2>1, <2>2
<1>4. ASSUME NEW rows \in SUBSET (Nat \ {0}), NEW k \in Nat, Prints(rows, k, k)
      PROVE  /\ \E n \in Nat \ {0} : new_prompt(n)
             /\ allocated' \in Nat /\ undefined' \in BOOLEAN
  <2>1. \E n \in Nat \ {0} : new_prompt(n)
    BY <1>4 DEF Prints, NewPrompt
  <2>2. allocated' \in Nat
    BY <1>3, <1>4 DEF Prints
  <2>3. undefined' \in BOOLEAN
    BY <1>3, <1>4, Zenon DEF Prints
  <2> QED  BY <2>1, <2>2, <2>3
<1>5. STR \in Nat /\ 2 * STR \in Nat /\ 0 \in Nat
  BY DEF STR
<1>6. CASE NotFound \/ echo \/ about \/ version \/ cpuinfo \/ memory \/ tcolor \/ Prints({1}, 0, 0)
  <2>1. ASSUME NEW n \in Nat \ {0}, NEW k \in Nat, Prints({n}, k, k)
        PROVE  /\ \E r \in Nat \ {0} : new_prompt(r)
               /\ allocated' \in Nat /\ undefined' \in BOOLEAN
    BY <1>4, <2>1
  <2> QED  BY <1>2, <1>5, <1>6, <2>1 DEF NotFound, echo, about, version, cpuinfo, memory, tcolor
<1>7. CASE help
  <2>1. {9} \in SUBSET (Nat \ {0}) /\ {6, 7} \in SUBSET (Nat \ {0})
    OBVIOUS
  <2>2. 2 + writeline(Len(params)) .. 3 + writeline(Len(params)) \in SUBSET (Nat \ {0})
    BY <1>2
  <2> QED  BY <1>4, <1>5, <1>7, <2>1, <2>2 DEF help
<1>8. CASE history
  <2>1. 3 + cmdhistory + 1 .. ROWS + 4 + cmdhistory \in SUBSET (Nat \ {0})
    BY <1>1, ScreenConstants
  <2> QED  BY <1>4, <1>5, <1>8, <2>1 DEF history
<1>9. CASE time
  <2>1. {3, 4} \in SUBSET (Nat \ {0})
    OBVIOUS
  <2> QED  BY <1>4, <1>5, <1>9, <2>1 DEF time
<1>10. CASE Losing
  <2>1. \E n \in Nat \ {0} : new_prompt(n)
    <3>1. PICK rows \in 7 .. ROWS + 7 : NewPrompt(rows)
      BY <1>10 DEF Losing
    <3>2. rows \in Nat \ {0}
      BY ScreenConstants
    <3> QED  BY <3>1, <3>2 DEF NewPrompt
  <2>2. allocated' \in Nat
    BY <1>3, <1>10 DEF Losing
  <2>3. undefined' \in BOOLEAN
    BY <1>3, <1>10, Zenon DEF Losing
  <2> QED  BY <2>1, <2>2, <2>3
<1>11. CASE cls
  <2>1. Prompted(-1, {}, 0, 1)
    BY <1>11 DEF cls
  <2>2. allocated' \in Nat
    BY <1>3, <1>11 DEF cls
  <2>3. undefined' \in BOOLEAN
    BY <1>3, <1>11, Zenon DEF cls
  <2> QED  BY <2>1, <2>2, <2>3
<1>12. CASE cprompt
  <2>1. \E n \in Nat \ {0} : new_prompt(n)
    BY <1>12 DEF cprompt, NewPrompt
  <2>2. allocated' \in Nat
    BY <1>3, <1>12 DEF cprompt
  <2>3. undefined' \in BOOLEAN
    BY <1>3, <1>12, Zenon DEF cprompt
  <2> QED  BY <2>1, <2>2, <2>3
<1>13. CASE alias
  <2>1. \E n \in Nat \ {0} : new_prompt(n)
    <3>1. CASE AliasNone
      <4>1. PICK rows \in 1 .. ROWS : NewPrompt(rows)
        BY <3>1 DEF AliasNone
      <4>2. rows \in Nat \ {0}
        BY ScreenConstants
      <4> QED  BY <4>1, <4>2 DEF NewPrompt
    <3>2. CASE AliasAgain \/ AliasNew \/ AliasThroughNull
      BY <3>2 DEF AliasAgain, AliasNew, AliasThroughNull, NewPrompt
    <3> QED  BY <1>13, <3>1, <3>2 DEF alias
  <2>2. allocated' \in Nat
    <3>1. \/ allocated' = allocated + Kept
          \/ allocated' = allocated + 2 * STR - 2 * STR + Kept
          \/ allocated' = allocated + 2 * STR + ELEMENT + Kept
                          + (IF aliases = <<>> THEN 0 ELSE ELEMENT)
          \/ allocated' = allocated
      BY <1>13 DEF alias, AliasNone, AliasAgain, AliasNew, AliasThroughNull
    <3> QED  BY <1>3, <3>1 DEF ELEMENT
  <2>3. undefined' \in BOOLEAN
    BY <1>3, <1>13, Zenon DEF alias, AliasNone, AliasAgain, AliasNew, AliasThroughNull
  <2> QED  BY <2>1, <2>2, <2>3
<1> QED
  BY <1>6, <1>7, <1>8, <1>9, <1>10, <1>11, <1>12, <1>13 DEF Run, disk, syslog

\* Every step keeps what is shown and the counters.
LEMMA NextDraws ==
  ASSUME IInv, IInv', Drawn, Bounded, [Next]_vars
  PROVE  Drawn' /\ Bounded'
<1>1. /\ Placed /\ Placed' /\ prompt_y \in 0 .. ROWS - 1 /\ input_ptr = Len(input.text)
      /\ prompt_string_length \in Nat /\ Len(input.text) \in Nat /\ Len(input'.text) \in Nat
  <2>1. Placed /\ Placed'
    BY DEF IInv
  <2> QED  BY <2>1 DEF Placed, CursorInStep, PromptOnScreen, StringOver
<1>2. PICK p \in Nat, n \in Nat :
        /\ p = prompt_string_length /\ n = Len(input.text) /\ p + n \in Nat /\ Length = p + n
  <2>1. PICK p \in Nat : p = prompt_string_length
    BY <1>1
  <2>2. PICK n \in Nat : n = Len(input.text)
    BY <1>1
  <2>3. Length = p + n /\ p + n \in Nat
    BY <2>1, <2>2 DEF Length
  <2> QED  BY <2>1, <2>2, <2>3
<1>3. CASE UNCHANGED vars
  BY <1>3, Zenon DEF vars, line, display, Drawn, Bounded, LineShown, Length
<1>4. ASSUME Typing PROVE Bounded'
  BY <1>4, Zenon DEF Typing, Bounded
<1>5. ASSUME NEW c \in Letters \cup {SPACE}, Type(c) PROVE Drawn' /\ Bounded'
  <2>1. Len(input'.text) = n + 1
    <3>1. input_ptr' = input_ptr + 1 /\ input_ptr' = Len(input'.text)
      BY <1>1, <1>5 DEF Type, Placed, CursorInStep
    <3> QED  BY <1>1, <1>2, <3>1
  <2>2. /\ shown' = draw_prompt(shown, prompt_y, p + (n + 1))
        /\ UNCHANGED <<prompt_string_length, prompt_y, reach, endterm>> /\ Typing
    BY <1>2, <1>5, <2>1 DEF Type, Redrawn, Typing
  <2>3. Length' = p + (n + 1) /\ p + (n + 1) = (p + n) + 1 /\ p + (n + 1) \in Nat
    BY <1>2, <2>1, <2>2 DEF Length
  <2>4. PICK old, new : /\ old = draw_prompt({}, prompt_y, p + n)
                        /\ new = draw_prompt({}, prompt_y, (p + n) + 1)
    OBVIOUS
  <2>5. shown' = shown \cup new /\ old \subseteq new /\ new \subseteq 0 .. COLUMNS * ROWS - 1
    BY <1>1, <1>2, <2>2, <2>3, <2>4, DrawIs
  <2>6. LineShown'
    <3> SUFFICES ASSUME ~endterm', NEW d \in shown', d \notin new PROVE d < reach'
      BY <2>2, <2>3, <2>4 DEF LineShown
    <3>1. ~endterm /\ d \in shown /\ d \notin old /\ reach' = reach
      BY <2>2, <2>5
    <3> QED  BY <1>2, <2>4, <3>1 DEF Drawn, LineShown
  <2> QED  BY <1>4, <2>2, <2>5, <2>6 DEF Drawn
<1>6. CASE Backspace /\ input_ptr > 0
  <2>1. PICK k \in Nat : n = k + 1
    BY <1>1, <1>2, <1>6
  <2>2. input_ptr' = k /\ Len(input'.text) = k
    <3>1. input_ptr' = input_ptr - 1
      BY <1>6 DEF Backspace, Erase
    <3>2. input_ptr' = Len(input'.text)
      BY <1>1 DEF Placed, CursorInStep
    <3>3. input_ptr = k + 1
      BY <1>1, <1>2, <2>1
    <3>4. input_ptr' = k
      BY <3>1, <3>3
    <3> QED  BY <3>2, <3>4
  <2>3. /\ shown' = draw_prompt(shown \ {Cell(p + k, prompt_y)}, prompt_y, p + k)
        /\ UNCHANGED <<prompt_string_length, prompt_y, reach, endterm>> /\ Typing
    BY <1>2, <1>6, <2>2 DEF Backspace, Erase, Redrawn, Typing
  <2>4. Length' = p + k /\ p + n = (p + k) + 1 /\ p + k \in Nat
    BY <1>2, <2>1, <2>2, <2>3 DEF Length
  <2>5. PICK old, new : /\ old = draw_prompt({}, prompt_y, (p + k) + 1)
                        /\ new = draw_prompt({}, prompt_y, p + k)
    OBVIOUS
  <2>6. /\ shown' = (shown \ {Cell(p + k, prompt_y)}) \cup new
        /\ old = new \cup {Cell(p + k, prompt_y)}
        /\ new \subseteq 0 .. COLUMNS * ROWS - 1
    BY <1>1, <2>3, <2>4, <2>5, DrawIs
  <2>7. LineShown'
    <3> SUFFICES ASSUME ~endterm', NEW d \in shown', d \notin new PROVE d < reach'
      BY <2>3, <2>4, <2>5 DEF LineShown
    <3>1. ~endterm /\ d \in shown /\ d \notin old /\ reach' = reach
      BY <2>3, <2>6
    <3> QED  BY <1>2, <2>4, <2>5, <3>1 DEF Drawn, LineShown
  <2> QED  BY <1>4, <2>3, <2>6, <2>7 DEF Drawn
<1>7. CASE Backspace /\ ~(input_ptr > 0)
  <2>1. UNCHANGED <<input, shown, prompt_string_length, prompt_y, reach, endterm>> /\ Typing
    BY <1>7 DEF Backspace, Typing, line
  <2>2. Drawn'
    BY <2>1, Zenon DEF Drawn, LineShown, Length
  <2> QED  BY <1>4, <2>1, <2>2
<1>8. CASE EnterNothing
  <2>1. ~endterm /\ new_prompt(1)
    BY <1>8 DEF EnterNothing, run_terminal, NewPrompt
  <2>2. Drawn'
    BY <1>1, <2>1, NewPromptDraws
  <2>3. Bounded'
    BY <1>8, Zenon DEF EnterNothing, Bounded
  <2> QED  BY <2>2, <2>3
<1>9. CASE parse_input
  <2>1. ~endterm /\ cmdhistory < LINES /\ cmdhistory' = cmdhistory + 1
    BY <1>9 DEF parse_input, run_terminal
  <2>2. PICK what \in Found : endterm' = (what = "shutdown") /\ Run(what)
    BY <1>9 DEF parse_input
  <2>3. /\ (\E times \in Nat \ {0} : new_prompt(times)) \/ Prompted(-1, {}, 0, 1)
        /\ allocated' \in Nat /\ undefined' \in BOOLEAN
    BY <2>2, RunLeaves
  <2>4. Drawn'
    <3>1. CASE \E times \in Nat \ {0} : new_prompt(times)
      BY <1>1, <2>1, <3>1, NewPromptDraws
    <3>2. CASE Prompted(-1, {}, 0, 1)
      <4>1. {} \in SUBSET (0 .. COLUMNS * ROWS - 1) /\ 0 \in Nat /\ 1 \in Nat \ {0}
        OBVIOUS
      <4> QED  BY <1>1, <3>2, <4>1, PromptedDraws
    <3> QED  BY <2>3, <3>1, <3>2
  <2>5. endterm' \in BOOLEAN
    BY <2>2
  <2>6. cmdhistory' \in 0 .. LINES
    BY <2>1, TerminalConstants DEF Bounded
  <2> QED  BY <2>3, <2>4, <2>5, <2>6 DEF Bounded
<1> QED  BY <1>3, <1>5, <1>6, <1>7, <1>8, <1>9 DEF Next, Ended

\* init_terminal draws the prompt on an empty screen.
LEMMA InitDraws ==
  ASSUME init_terminal
  PROVE  Drawn /\ Bounded
<1>1. IInv
  BY InitKeeps
<1>2. /\ prompt_y \in 0 .. ROWS - 1 /\ prompt_string_length \in Nat /\ Len(input.text) = 0
  <2>1. input_ptr = Len(input.text) /\ input_ptr = 0
    BY <1>1 DEF init_terminal, IInv, Placed, CursorInStep
  <2> QED  BY <1>1, <2>1 DEF IInv, Placed, CursorInStep, PromptOnScreen, StringOver
<1>3. shown = draw_prompt({}, prompt_y, prompt_string_length) /\ reach = 0
  BY DEF init_terminal
<1>4. Length = prompt_string_length
  BY <1>2 DEF Length
<1>5. Drawn
  BY <1>2, <1>3, <1>4, DrawIs DEF Drawn, LineShown
<1>6. Bounded
  <2>1. cmdhistory \in 0 .. LINES
    BY TerminalConstants DEF init_terminal
  <2>2. allocated \in Nat
    BY DEF init_terminal, STR, ELEMENT
  <2>3. endterm \in BOOLEAN /\ undefined \in BOOLEAN
    BY DEF init_terminal
  <2> QED  BY <2>1, <2>2, <2>3 DEF Bounded
<1> QED  BY <1>5, <1>6

-----------------------------------------------------------------------------
(* What holds of the terminal.                                               *)

\* The line, the prompt, the aliases and the count of blocks agree in every
\* state that the keys and commands of terminal.c and commands.c lead to.
THEOREM TerminalInductive == Spec => []IInv
<1>1. init_terminal => IInv
  BY InitKeeps
<1>2. IInv /\ [Next]_vars => IInv'
  BY NextKeeps
<1> QED  BY <1>1, <1>2, PTL DEF Spec

\* What is typed appears where handle_input stores it, and the cursor right
\* behind it, with prompts and lines of any length.
THEOREM CursorStays == Spec => []CursorInStep
<1>1. IInv => CursorInStep
  BY DEF IInv, Placed
<1> QED  BY <1>1, TerminalInductive, PTL

\* new_prompt keeps the prompt on a screen of any number of rows, however
\* many rows a command printed, and cls and cprompt too.
THEOREM PromptStays == Spec => []PromptOnScreen
<1>1. IInv => PromptOnScreen
  BY DEF IInv, Placed
<1> QED  BY <1>1, TerminalInductive, PTL

\* No string that the terminal and alias write to is written past its bytes,
\* whatever its size was.
THEOREM StringsStay == Spec => []StringsFit
<1>1. IInv => StringsFit
  BY DEF IInv, Placed, Listed, StringsFit
<1> QED  BY <1>1, TerminalInductive, PTL

\* After any number of alias commands every alias can still be found by its
\* name.
THEOREM AliasesStay == Spec => []AliasesDistinct
<1>1. IInv => AliasesDistinct
  BY DEF IInv, Listed
<1> QED  BY <1>1, TerminalInductive, PTL

\* Whatever is entered, no way through parse_input and the commands takes or
\* frees a block that the history, the aliases, the line and the prompt, and
\* the strings of disk and syslog do not account for.
THEOREM BlocksStay == Spec => []BlocksAccounted
<1>1. IInv => BlocksAccounted
  BY DEF IInv, Counted
<1> QED  BY <1>1, TerminalInductive, PTL

\* What is shown ends with the line, but for what longer lines have left; and
\* the counters stay in their bounds.
THEOREM TerminalDraws == Spec => [](Drawn /\ Bounded)
<1>1. init_terminal => Drawn /\ Bounded
  BY InitDraws
<1>2. IInv /\ IInv' /\ (Drawn /\ Bounded) /\ [Next]_vars => (Drawn /\ Bounded)'
  BY NextDraws
<1> QED  BY <1>1, <1>2, TerminalInductive, PTL DEF Spec

\* handle_input and new_prompt erase what they should: on a screen of any size
\* there is nothing after the line that was not typed, but for what lines
\* longer than a row have left there.
THEOREM LineStaysShown == Spec => []LineShown
<1>1. Drawn /\ Bounded => LineShown
  BY DEF Drawn
<1> QED  BY <1>1, TerminalDraws, PTL

\* Every variable keeps its type: the cells that hold something are cells of
\* the screen, and no more blocks are freed than were taken.
THEOREM TerminalTyped == Spec => []TypeOK
<1>1. IInv /\ (Drawn /\ Bounded) => TypeOK
  <2> SUFFICES ASSUME IInv, Drawn, Bounded PROVE TypeOK
    OBVIOUS
  <2>1. input \in String /\ prompt_string \in String
    BY DEF IInv, Placed, StringOver, Char, String, Text
  <2>2. /\ input_ptr \in Nat /\ prompt_string_length \in Nat
        /\ prompt_y \in Int /\ cursor_x \in Int /\ cursor_y \in Int
    <3>1. input_ptr \in Nat /\ prompt_string_length \in Nat
      BY <2>1 DEF IInv, Placed, CursorInStep, String, Text
    <3>2. prompt_y \in Int
      BY ScreenConstants DEF IInv, Placed, PromptOnScreen
    <3> QED  BY <3>1, <3>2 DEF IInv, Placed, CursorInStep
  <2>3. aliases \in Seq([alias : String, command : String])
    BY DEF IInv, Listed, Pairs, StringOver, Char, String, Text
  <2>4. lost \in Nat
    BY DEF IInv, Counted
  <2> QED  BY <2>1, <2>2, <2>3, <2>4 DEF TypeOK, Drawn, Bounded
<1> QED  BY <1>1, TerminalInductive, TerminalDraws, PTL
=============================================================================
