------------------------------ MODULE Terminal ------------------------------
(***************************************************************************)
(* The terminal (kernel/terminal.c) and the commands of kernel/commands.c  *)
(* that leave something behind: the line being typed, the cursor and the   *)
(* prompt, parse_input with the aliases, and the heap blocks all that      *)
(* takes and gives back.  A key is handled, and a command run, in one      *)
(* step: nothing else changes what the terminal looks at.                  *)
(*                                                                         *)
(* Of the lines entered before (cmdhistory) only their number is kept, and *)
(* of the prompt only its length; what commands print is the number of     *)
(* rows, which scrolls the prompt: texts of the kernel's own take a row    *)
(* each, as they do on 80 columns.  Of the screen there is what lies in    *)
(* and below the prompt's row.                                             *)
(*                                                                         *)
(* A definition marked "Fault" belongs to no specification: it is a wrong  *)
(* version of the definition after it, that the properties must refuse.    *)
(***************************************************************************)
EXTENDS Strings, Screen

CONSTANTS
  Letters, SPACE,
  commands,             \* first word of a line -> what it may run
  TERMINAL_INPUT_SIZE,
  PROMPT_STRING, PROMPT_START_Y,
  LINES                 \* lines entered after which nothing more is typed

ASSUME TerminalConstants ==
  /\ SPACE \notin Letters /\ DOMAIN commands \subseteq Seq(Letters)
  /\ TERMINAL_INPUT_SIZE \in Nat /\ LINES \in Nat
  /\ PROMPT_STRING \in Seq({SPACE}) \ {<<>>}
  /\ PROMPT_START_Y \in 0 .. ROWS - 1

VARIABLES
  input, input_ptr,
  prompt_string, prompt_string_length, prompt_y,
  cursor_x, cursor_y,
  shown,                \* cells that hold something, counted from the prompt's row
  reach,                \* history: the end of the lines that went past their row
  cmdhistory,           \* how many lines it holds
  aliases,              \* [alias, command] in the order of the list
  endterm,
  undefined,            \* TRUE after a write through the NULL of an empty list
  allocated,            \* heap blocks in use by all this
  lost                  \* strings that disk and syslog have left

line == <<input, input_ptr>>
display == <<prompt_string, prompt_string_length, prompt_y, cursor_x, cursor_y, shown, reach>>
vars == <<line, display, cmdhistory, aliases, endterm, undefined, allocated, lost>>

STR == 2                \* blocks of a string: the structure and its data
ELEMENT == 1            \* blocks of a list element, or of a struct alias

\* The cell get_position(x, y) is, counted from the first of row y.
Cell(x, y) == (get_position(x, y) - get_position(0, y)) \div 2

\* The cells that hold something once draw_prompt has written a prompt and a
\* line of so many characters to row y, clamped as kprint stops at the end.
draw_prompt(cells, y, length) == cells \cup {Cell(x, y) : x \in 0 .. length - 1}

init_terminal ==
  /\ input = string_newsz(TERMINAL_INPUT_SIZE) /\ input_ptr = 0
  /\ prompt_string = string_set(string_new, PROMPT_STRING)
  /\ prompt_string_length = Len(PROMPT_STRING) /\ prompt_y = PROMPT_START_Y
  /\ cursor_x = prompt_string_length /\ cursor_y = prompt_y
  /\ shown = draw_prompt({}, prompt_y, prompt_string_length) /\ reach = 0
  /\ cmdhistory = 0 /\ aliases = <<>>
  /\ endterm = FALSE /\ undefined = FALSE
  /\ allocated = 2 * ELEMENT + 2 * STR /\ lost = 0

-----------------------------------------------------------------------------
(* handle_input.                                                             *)

run_terminal == ~endterm /\ ~undefined /\ cmdhistory < LINES

\* Every turn of the loop of run_terminal draws the prompt before it looks
\* for a key.
Length == prompt_string_length + Len(input.text)
Redrawn(cells) == shown' = draw_prompt(cells, prompt_y, prompt_string_length + Len(input'.text))

\* What a key that is not Enter leaves alone.
Typing == UNCHANGED <<prompt_string, prompt_string_length, prompt_y, cursor_y, reach,
                      cmdhistory, aliases, endterm, undefined, allocated, lost>>

\* Fault: moves the cursor on a full line too.
TypeOver(c) ==
  /\ run_terminal /\ cursor_x' = cursor_x + 1
  /\ IF input_ptr < TERMINAL_INPUT_SIZE
     THEN input' = string_addchar(input, c) /\ input_ptr' = input_ptr + 1
     ELSE UNCHANGED line
  /\ Redrawn(shown) /\ Typing

Type(c) ==
  /\ run_terminal /\ input_ptr < TERMINAL_INPUT_SIZE
  /\ cursor_x' = cursor_x + 1
  /\ input' = string_addchar(input, c) /\ input_ptr' = input_ptr + 1
  /\ Redrawn(shown) /\ Typing

CursorBack ==
  cursor_x' = IF cursor_x - 1 \in 0 .. prompt_string_length - 1
              THEN prompt_string_length ELSE cursor_x - 1

\* The character goes from the line, and a blank over its cell.
Erase ==
  /\ input_ptr' = input_ptr - 1
  /\ input' = [input EXCEPT !.text = SubSeq(@, 1, input_ptr - 1)]
  /\ Redrawn(shown \ {Cell(prompt_string_length + input_ptr', prompt_y)})

\* Fault: erases to the left of the first character.
BackspaceAlways == run_terminal /\ CursorBack /\ Erase /\ Typing

\* Fault: leaves the character on the screen.
BackspaceShowing ==
  /\ run_terminal /\ CursorBack
  /\ IF input_ptr > 0
     THEN /\ input_ptr' = input_ptr - 1
          /\ input' = [input EXCEPT !.text = SubSeq(@, 1, input_ptr - 1)]
     ELSE UNCHANGED line
  /\ Redrawn(shown) /\ Typing

\* The cursor is compared as an unsigned number: -1 would pass for a large one.
Backspace ==
  /\ run_terminal /\ CursorBack
  /\ IF input_ptr > 0 THEN Erase ELSE UNCHANGED <<line, shown>>
  /\ Typing

\* new_prompt, called a number of times from row y on, with these cells and
\* this reach: scrolled or not, the prompt is a row further down each time.
\* It is drawn there unless the terminal ends.
Prompted(y, cells, end, times) ==
  LET rows == times * COLUMNS
      below == {c - rows : c \in {d \in cells : d >= rows}}
  IN  /\ prompt_y' = IF y + times > ROWS - 1 THEN ROWS - 1 ELSE y + times
      /\ cursor_y' = prompt_y' /\ cursor_x' = prompt_string_length'
      /\ input' = string_clear(input) /\ input_ptr' = 0
      /\ shown' = IF endterm' THEN below ELSE draw_prompt(below, prompt_y', prompt_string_length')
      /\ reach' = IF end > rows THEN end - rows ELSE 0

new_prompt(times) ==
  Prompted(prompt_y, shown, IF Length > reach THEN Length ELSE reach, times)

SamePrompt == UNCHANGED <<prompt_string, prompt_string_length>>
NewPrompt(times) == SamePrompt /\ new_prompt(times)

EnterNothing ==
  /\ run_terminal /\ input_ptr <= 0 /\ UNCHANGED endterm /\ NewPrompt(1)
  /\ UNCHANGED <<cmdhistory, aliases, undefined, allocated, lost>>

-----------------------------------------------------------------------------
(* parse_input: the first word of a line, and what follows its space.        *)

Word(t) ==
  LET ends == {i \in DOMAIN t : t[i] = SPACE}
  IN  IF ends = {} THEN t ELSE SubSeq(t, 1, (CHOOSE i \in ends : \A j \in ends : i <= j) - 1)
Params(t) == SubSeq(t, Len(Word(t)) + 2, Len(t))

\* Aliases of that name, the first of which find_alias returns.
Named(w) == {i \in DOMAIN aliases : aliases[i].alias.text = w}
find_alias(w) == CHOOSE i \in Named(w) : \A j \in Named(w) : i <= j

\* The line that is run: its own, unless an alias replaces it as a whole.
Resolved ==
  LET w == Word(input.text)
  IN  IF w \notin DOMAIN commands /\ Named(w) # {}
      THEN aliases[find_alias(w)].command.text ELSE input.text

\* What the line may run.
Found ==
  LET w == Word(Resolved)
  IN  IF w \in DOMAIN commands THEN commands[w] ELSE {"not found"}

params == Params(Resolved)

\* Blocks that stay with the line in the history, of the three strings that
\* parse_input makes.
Kept == STR + (IF cmdhistory = 0 THEN 0 ELSE ELEMENT)

\* A command that takes and frees as many blocks as that, and calls
\* new_prompt as often as one of rows says, the call of parse_input included.
Prints(rows, takes, frees) ==
  /\ \E n \in rows : NewPrompt(n)
  /\ allocated' = allocated + takes - frees + Kept
  /\ UNCHANGED <<aliases, undefined, lost>>

\* The name is found neither here nor there: two lines.
NotFound == Prints({2 + writeline(Len(Word(Resolved)))}, 0, 0)

echo == Prints({1 + writeline(Len(params))}, 0, 0)
about == Prints({8}, 0, 0)
version == Prints({3}, 0, 0)

\* The list of commands, the help of one (tcolor's takes two rows), or an error
\* message that ends with the name, and begins with less than a row.
help ==
  \/ params = <<>> /\ Prints({9}, STR, STR)
  \/ params # <<>> /\ Prints({6, 7}, 0, 0)
  \/ params # <<>> /\ Prints(2 + writeline(Len(params)) .. 3 + writeline(Len(params)), STR, STR)

\* A line for each line entered, this one too, between two that are empty.
history == Prints(3 + cmdhistory + 1 .. ROWS + 4 + cmdhistory, STR, STR)

cpuinfo == Prints({8}, STR, STR)
memory == Prints({4}, STR, STR)
time == Prints({3, 4}, STR, STR)

\* Fault: does not free the words when they name no color.
tcolorKeeping ==
  \/ Prints({1}, 2 * STR, 2 * STR)
  \/ Prints({2}, 2 * STR, 0)

\* Two words, copied to strings of their own, name colors or do not.
tcolor ==
  \/ Prints({1}, 2 * STR, 2 * STR)
  \/ Prints({2}, 2 * STR, 2 * STR)

\* disk and syslog print six lines or more, and never free the string they
\* print with.
Losing ==
  /\ \E rows \in 7 .. ROWS + 7 : NewPrompt(rows)
  /\ allocated' = allocated + STR + Kept /\ lost' = lost + 1
  /\ UNCHANGED <<aliases, undefined>>
disk == Losing
syslog == Losing

\* Fault: the prompt stays on the row before the first.
clsAbove ==
  /\ SamePrompt /\ Prompted(-1, {}, 0, 0)
  /\ allocated' = allocated + Kept
  /\ UNCHANGED <<aliases, undefined, lost>>

\* kclear, and the row is set to -1, so that new_prompt puts the prompt on
\* row 0.
cls ==
  /\ SamePrompt /\ Prompted(-1, {}, 0, 1)
  /\ allocated' = allocated + Kept
  /\ UNCHANGED <<aliases, undefined, lost>>

cprompt ==
  /\ IF params # <<>>
     THEN /\ prompt_string' = string_set(prompt_string, [i \in DOMAIN params |-> SPACE])
          /\ prompt_string_length' = Len(params)
          /\ new_prompt(1)
     ELSE NewPrompt(2)
  /\ allocated' = allocated + Kept
  /\ UNCHANGED <<aliases, undefined, lost>>

-----------------------------------------------------------------------------
(* The alias command.                                                        *)

HasName == params # <<>> /\ params[1] # SPACE
name == Word(params)
HasCommand == Len(name) < Len(params)
newalias == Copied(string_new, name)
newcmd == Copied(string_new, Params(params))

\* No name, and the aliases are printed; no command, and it is an error.
AliasNone ==
  /\ (HasName => ~HasCommand)
  /\ \E rows \in 1 .. ROWS : NewPrompt(rows)
  /\ allocated' = allocated + Kept
  /\ UNCHANGED <<aliases, undefined, lost>>

\* The command of an alias of that name is replaced, and two strings freed.
AliasAgain ==
  /\ HasName /\ HasCommand /\ Named(name) # {}
  /\ aliases' = [aliases EXCEPT ![find_alias(name)].command = newcmd]
  /\ allocated' = allocated + 2 * STR - 2 * STR + Kept
  /\ NewPrompt(1) /\ UNCHANGED <<undefined, lost>>

\* Fault: does not look for an alias of that name.
AliasNewAlways ==
  /\ HasName /\ HasCommand
  /\ aliases' = Append(aliases, [alias |-> newalias, command |-> newcmd])
  /\ allocated' = allocated + 2 * STR + ELEMENT + Kept
                  + (IF aliases = <<>> THEN 0 ELSE ELEMENT)
  /\ NewPrompt(1) /\ UNCHANGED <<undefined, lost>>

\* The first alias goes into the element that is there already.
AliasNew ==
  /\ HasName /\ HasCommand /\ Named(name) = {}
  /\ aliases' = Append(aliases, [alias |-> newalias, command |-> newcmd])
  /\ allocated' = allocated + 2 * STR + ELEMENT + Kept
                  + (IF aliases = <<>> THEN 0 ELSE ELEMENT)
  /\ NewPrompt(1) /\ UNCHANGED <<undefined, lost>>

\* The element of an empty list has no value: the search for the name goes
\* through NULL, and should what lies there equal it, writes there as well.
AliasThroughNull ==
  /\ HasName /\ HasCommand /\ aliases = <<>> /\ undefined' = TRUE
  /\ NewPrompt(1) /\ UNCHANGED <<aliases, allocated, lost>>

alias == AliasNone \/ AliasAgain \/ AliasNew \/ AliasThroughNull

\* The command's own part of a turn of the loop, up to the new_prompt of
\* parse_input; shutdown, and the commands that are still to be written, do
\* nothing else.
Run(what) ==
  \/ what = "not found" /\ NotFound
  \/ what = "echo" /\ echo
  \/ what = "about" /\ about
  \/ what = "version" /\ version
  \/ what = "help" /\ help
  \/ what = "history" /\ history
  \/ what = "cpuinfo" /\ cpuinfo
  \/ what = "memory" /\ memory
  \/ what = "time" /\ time
  \/ what = "tcolor" /\ tcolor
  \/ what = "disk" /\ disk
  \/ what = "syslog" /\ syslog
  \/ what = "cls" /\ cls
  \/ what = "cprompt" /\ cprompt
  \/ what = "alias" /\ alias
  \/ what \in {"shutdown", "memview", "debug"} /\ Prints({1}, 0, 0)

\* Enter on a line with something in it.
parse_input ==
  /\ run_terminal /\ input_ptr > 0
  /\ cmdhistory' = cmdhistory + 1
  /\ \E what \in Found : endterm' = (what = "shutdown") /\ Run(what)

\* Waits for a key that never comes, or has ended.
Ended == UNCHANGED vars /\ ~run_terminal

Next ==
  \/ \E c \in Letters \cup {SPACE} : Type(c)
  \/ Backspace \/ EnterNothing \/ parse_input \/ Ended

Spec == init_terminal /\ [][Next]_vars

-----------------------------------------------------------------------------
Text == Seq(Letters \cup {SPACE})
String == [text : Text, size : Nat]

\* Every variable has its type.
TypeOK ==
  /\ input \in String /\ prompt_string \in String
  /\ input_ptr \in Nat /\ prompt_string_length \in Nat
  /\ prompt_y \in Int /\ cursor_x \in Int /\ cursor_y \in Int
  /\ shown \subseteq 0 .. COLUMNS * ROWS - 1 /\ reach \in Nat
  /\ cmdhistory \in 0 .. LINES /\ aliases \in Seq([alias : String, command : String])
  /\ endterm \in BOOLEAN /\ undefined \in BOOLEAN /\ allocated \in Nat /\ lost \in Nat

\* What is typed appears where it is stored: input_ptr is the end of the
\* line's text and the cursor stands right after it, behind a prompt of the
\* current length, on the prompt's row, whatever was typed, erased at either
\* end, scrolled, cleared or set as the prompt.
CursorInStep ==
  /\ input_ptr = Len(input.text)
  /\ prompt_string_length = Len(prompt_string.text)
  /\ cursor_x = prompt_string_length + input_ptr
  /\ cursor_y = prompt_y

\* The prompt never leaves the screen.
PromptOnScreen == prompt_y \in 0 .. ROWS - 1

\* The screen shows the prompt and the line that is being typed, and nothing
\* after them, where characters were erased, rows scrolled up or output was
\* printed, but for what lines that did not fit in their row have left there.
LineShown ==
  ~endterm => \A c \in shown \ draw_prompt({}, prompt_y, Length) : c < reach

\* No string outgrows its bytes: not the line, which keeps those it had at
\* first until it is full, nor the prompt, nor what alias copied.
StringsFit ==
  /\ Fits(input) /\ Fits(prompt_string)
  /\ \A i \in DOMAIN aliases : Fits(aliases[i].alias) /\ Fits(aliases[i].command)

\* An alias is one word and names one command: no later alias of its name is
\* out of find_alias's reach.
AliasesDistinct ==
  \A i \in DOMAIN aliases :
    /\ aliases[i].alias.text \in Seq(Letters) \ {<<>>}
    /\ Named(aliases[i].alias.text) = {i}

\* What the line, the prompt, the history and the aliases hold, and the
\* strings that disk and syslog have lost.
Blocks ==
  LET list(n) == IF n = 0 THEN ELEMENT ELSE n * ELEMENT
  IN  STR * (2 + cmdhistory + 2 * Len(aliases) + lost)
      + list(cmdhistory) + list(Len(aliases)) + ELEMENT * Len(aliases)

\* Whatever was entered, every block in use is one of those: no way through a
\* command loses another, or frees one that is still in use.
BlocksAccounted == ~undefined => allocated = Blocks
=============================================================================
