------------------------------ MODULE Scanner ------------------------------
(***************************************************************************)
(* yylex() of ms2scanner.cpp, which flex has made from ms2scanner.lpp, and *)
(* the buffer it reads through: all of a string, or a piece of a file at a *)
(* time, where a token may lie across two pieces.  The compressed tables   *)
(* of the automaton are abstracted to the language they accept.  Locations *)
(* and what is said about an unknown character are left out.               *)
(***************************************************************************)
EXTENDS Tokens

CONSTANTS
  BufSize,      \* YY_BUF_SIZE
  ReadSize      \* YY_READ_BUF_SIZE

ASSUME BufferAssumption == BufSize \in Nat \ {0} /\ ReadSize \in Nat \ {0}

VARIABLES
  buffer,       \* the current yy_buffer_state, or NoBuffer
  pos,          \* yy_c_buf_p: how much of the buffer has been scanned
  unread,       \* what yyin has left
  yychar,       \* what yylex() has returned, until the parser has used it
  words         \* history: all it has returned since the text was given

scannerVars == <<buffer, pos, unread, yychar, words>>

NoBuffer == [status |-> "none"]
Empty    == [tok |-> "empty"]

ScannerInit ==
  buffer = NoBuffer /\ pos = 0 /\ unread = <<>> /\ yychar = Empty /\ words = <<>>

-----------------------------------------------------------------------------
(* The buffer.  chars is what precedes the two end-of-buffer characters.   *)

NewBuffer(chars, size, fill, tty) ==
  [chars |-> chars, size |-> size, fill |-> fill, tty |-> tty, status |-> "new"]

(* yy_scan_string(), yy_scan_bytes(), yy_scan_buffer()                     *)
ScanString(s) ==
  /\ buffer' = NewBuffer(s, Len(s), FALSE, FALSE)
  /\ pos' = 0 /\ unread' = <<>> /\ yychar' = Empty /\ words' = <<>>

(* parse_formula_from_file(): yyin is set, and nothing else.               *)
OpenFile(s) ==
  /\ unread' = s /\ yychar' = Empty /\ words' = <<>>
  /\ UNCHANGED <<buffer, pos>>

(* The first call of yylex(): a buffer is made for yyin if there is none.  *)
CreateBuffer ==
  /\ buffer = NoBuffer
  /\ \E tty \in BOOLEAN : buffer' = NewBuffer(<<>>, BufSize, TRUE, tty)
  /\ pos' = 0
  /\ UNCHANGED <<unread, yychar, words>>

(* Mutant of DestroyScanner: what the buffer still holds is kept.          *)
ForgetScanner == UNCHANGED <<buffer, pos, unread, words>>

(* yylex_destroy()                                                         *)
DestroyScanner == buffer' = NoBuffer /\ pos' = 0 /\ UNCHANGED <<unread, words>>

Rest == SubSeq(buffer.chars, pos + 1, Len(buffer.chars))

Return(c) == yychar' = c /\ words' = Append(words, c)

Take(w) == IF TokenOf(w) = "skip" THEN UNCHANGED <<yychar, words>> ELSE Return(Returned(w))

Scan ==
  /\ buffer # NoBuffer /\ ~HitsEnd(Rest)
  /\ Take(Lexeme(Rest))
  /\ pos' = pos + Len(Lexeme(Rest))
  /\ UNCHANGED <<buffer, unread>>

(* A string is not filled up: what is left of it is the last word.         *)
EndOfString ==
  /\ buffer # NoBuffer /\ ~buffer.fill /\ HitsEnd(Rest)
  /\ IF Rest = <<>> THEN Return(Eof) /\ UNCHANGED pos
     ELSE Take(Lexeme(Rest)) /\ pos' = pos + Len(Lexeme(Rest))
  /\ buffer' = [buffer EXCEPT !.status = "normal"]
  /\ UNCHANGED unread

(* The buffer grows until there is room for another character.             *)
Grown(size, moved) ==
  LET To[n \in Nat] == IF n > moved + 1 THEN n ELSE To[2 * n]
  IN To[size]

(* YY_INPUT: a terminal is read up to the end of a line.                   *)
Input(n) ==
  LET k == Min({n, Len(unread)})
      ends == {i \in 1 .. k : unread[i] = "\n"}
  IN IF buffer.tty /\ ends # {} THEN Min(ends) ELSE k

(***************************************************************************)
(* yy_get_next_buffer(): the word that has been begun moves to the front   *)
(* of the buffer and is scanned again with what is read.  At the end of    *)
(* the file it is first taken as it is.                                    *)
(***************************************************************************)
Refill ==
  LET moved == Rest
      size  == IF buffer.status = "eof pending" THEN buffer.size
               ELSE Grown(buffer.size, Len(moved))
      n     == IF buffer.status = "eof pending" THEN 0
               ELSE Input(Min({size - Len(moved) - 1, ReadSize}))
      Filled(status) == [buffer EXCEPT !.chars = moved \o SubSeq(unread, 1, n),
                                       !.size = size, !.status = status]
  IN /\ buffer # NoBuffer /\ buffer.fill /\ HitsEnd(moved)
     /\ unread' = SubSeq(unread, n + 1, Len(unread))
     /\ \/ /\ n > 0
           /\ buffer' = Filled("normal") /\ pos' = 0
           /\ UNCHANGED <<yychar, words>>
        \/ /\ n = 0 /\ moved = <<>>
           /\ buffer' = Filled("new") /\ pos' = 0
           /\ Return(Eof)
        \/ /\ n = 0 /\ moved # <<>>
           /\ buffer' = Filled("eof pending") /\ pos' = Len(Lexeme(moved))
           /\ Take(Lexeme(moved))

yylex == CreateBuffer \/ Scan \/ EndOfString \/ Refill

=============================================================================
