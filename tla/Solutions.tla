------------------------------- MODULE Solutions -------------------------------
(***************************************************************************)
(* The exercises under 0xetc/0xcc, each a class Solution with one method,  *)
(* as functions of their input.  A loop is a recursive function of what    *)
(* it carries from turn to turn.  Strings are sequences of letters; index  *)
(* 0 of the source is index 1 here.                                        *)
(***************************************************************************)
EXTENDS Integers, Sequences, FiniteSets, SequencesExt, FiniteSetsExt

CONSTANTS
  SlLength,     \* the longest sequence given to a Solution
  SlDigits      \* digits, letters and numbers are 0 .. SlDigits

VARIABLES slProblem, slInput, slDone
slVars == <<slProblem, slInput, slDone>>

Digits == 0 .. SlDigits
Upto(S, n) == UNION {[1 .. k -> S] : k \in 0 .. n}

-----------------------------------------------------------------------------
(* merge-sorted-array: nums2 is put behind the m first of nums1, then sort() *)
merge(nums1, m, nums2, n) ==
  LET filled == [i \in DOMAIN nums1 |-> IF i > m /\ i <= m + n THEN nums2[i - m] ELSE nums1[i]]
  IN IF n = 0 THEN nums1 ELSE SortSeq(filled, <)

(* remove-element: returns [nums, ans], the values kept are the ans first ones *)
removeElement(nums, val) ==
  LET turn[i \in 0 .. Len(nums)] ==
        IF i = 0 THEN [nums |-> nums, ans |-> 0]
        ELSE LET t == turn[i - 1] IN
             IF t.nums[i] = val THEN t
             ELSE [nums |-> [t.nums EXCEPT ![t.ans + 1] = t.nums[i]], ans |-> t.ans + 1]
  IN turn[Len(nums)]

(* two-sum: the first pair in the order of the two loops; the loops run past the
   end when there is none, so it is only called when there is one *)
twoSum(nums, target) ==
  LET pairs == {p \in (1 .. Len(nums)) \X (1 .. Len(nums)) : p[1] < p[2] /\ nums[p[1]] + nums[p[2]] = target}
      f == Min({p[1] : p \in pairs})
  IN <<f, Min({p[2] : p \in {q \in pairs : q[1] = f}})>>

(* ransom-note: the magazine's letters are counted, then used up one by one *)
canConstruct(ransomNote, magazine) ==
  LET mag_map == [c \in Digits |-> Cardinality({i \in DOMAIN magazine : magazine[i] = c})]
      use[i \in 0 .. Len(ransomNote)] ==       \* the counts left, or <<>> once one was missing
        IF i = 0 THEN mag_map
        ELSE LET left == use[i - 1] IN
             IF left = <<>> \/ left[ransomNote[i]] - 1 < 0 THEN <<>>
             ELSE [left EXCEPT ![ransomNote[i]] = @ - 1]
  IN use[Len(ransomNote)] # <<>>

-----------------------------------------------------------------------------
(* palindrome-number: the digits of x, front against rear *)
DigitsOf(x) == LET d[n \in 0 .. x] == IF n < 10 THEN <<n>> ELSE Append(d[n \div 10], n % 10) IN d[x]

numberIsPalindrome(x) ==
  LET s == DigitsOf(x)
      xsize == Len(s)
      agree[i \in 0 .. xsize] ==               \* turn i of the while loop
        LET f == i + 1  r == xsize - i IN
        IF xsize % 2 = 0 THEN f > r \/ (s[f] = s[r] /\ agree[i + 1])
                         ELSE f = r \/ (s[f] = s[r] /\ agree[i + 1])
  IN xsize = 1 \/ agree[0]

(* valid-palindrome: letters and digits only, in lower case; Odd is a mark *)
stringIsPalindrome(s) ==
  LET new_s == SelectSeq(s, LAMBDA c : c # 0)
      n == Len(new_s)
      go[front \in 1 .. n] ==
        LET rear == n + 1 - front IN
        /\ new_s[front] = new_s[rear]
        /\ IF n % 2 = 0 THEN front = rear - 1 \/ go[front + 1]
                        ELSE front = rear - 2 \/ go[front + 1]
  IN n <= 1 \/ go[1]

-----------------------------------------------------------------------------
(* longest-substring-without-repeating-characters: [this_vec, front, toplen] after
   s[rear]; the inner loop drops letters from the front until this_c is not in it *)
lengthOfLongestSubstring(s) ==
  LET drop[v \in {SubSeq(s, i, j) : i \in 1 .. Len(s) + 1, j \in 0 .. Len(s)} \X Digits] ==
        IF v[2] \in Range(v[1]) THEN drop[<<Tail(v[1]), v[2]>>] ELSE v[1]
      after[rear \in 0 .. Len(s)] ==
        IF rear = 0 THEN [vec |-> <<>>, top |-> 0]
        ELSE LET a == after[rear - 1]
                 vec == Append(drop[<<a.vec, s[rear]>>], s[rear])
             IN [vec |-> vec, top |-> IF Len(vec) > a.top THEN Len(vec) ELSE a.top]
  IN after[Len(s)].top

(* minimum-size-subarray-sum: sum of nums[rear .. front], rear moves up while sum >= target *)
minSubArrayLen_Once(target, nums) ==
  LET INT_MAX == Len(nums) + 1
      after[front \in 0 .. Len(nums)] ==
        IF front = 0 THEN [sum |-> 0, rear |-> 1, min_len |-> INT_MAX]
        ELSE LET t == [after[front - 1] EXCEPT !.sum = @ + nums[front]] IN
             IF t.sum < target THEN t
             ELSE [sum |-> t.sum - nums[t.rear], rear |-> t.rear + 1,
                   min_len |-> Min({t.min_len, front - t.rear + 1})]
      min_len == after[Len(nums)].min_len
  IN IF min_len = INT_MAX THEN 0 ELSE min_len

minSubArrayLen(target, nums) ==
  LET INT_MAX == Len(nums) + 1
      shrink(t, front) ==
        LET s[k \in 0 .. Len(nums)] ==         \* after k turns of the inner loop
              IF k = 0 THEN t
              ELSE LET p == s[k - 1] IN
                   IF p.sum < target \/ p.rear > front THEN p
                   ELSE [sum |-> p.sum - nums[p.rear], rear |-> p.rear + 1,
                         min_len |-> Min({p.min_len, front - p.rear + 1})]
        IN s[Len(nums)]
      after[front \in 0 .. Len(nums)] ==
        IF front = 0 THEN [sum |-> 0, rear |-> 1, min_len |-> INT_MAX]
        ELSE LET t == after[front - 1] IN shrink([t EXCEPT !.sum = @ + nums[front]], front)
      min_len == after[Len(nums)].min_len
  IN IF min_len = INT_MAX THEN 0 ELSE min_len

-----------------------------------------------------------------------------
(* add-two-numbers: digit by digit, until both lists have ended and nothing is carried *)
addTwoNumbers(l1, l2) ==
  LET n == Max({Len(l1), Len(l2)}) + 1
      digit(l, i) == IF i <= Len(l) THEN l[i] ELSE 0
      turn[i \in 0 .. n] ==
        IF i = 0 THEN [ans |-> <<>>, carry |-> 0]
        ELSE LET t == turn[i - 1]
                 sum == t.carry + digit(l1, i) + digit(l2, i)
             IN IF t.carry = 0 /\ i > Len(l1) /\ i > Len(l2) THEN t
                ELSE [ans |-> Append(t.ans, sum % 10), carry |-> sum \div 10]
  IN turn[n].ans

(* zigzag-conversion: where the next letter goes, down a full column (col_ptr = 0)
   or up the diagonal, on which col_ptr is the one row that gets a letter *)
nextTile(t, numRows) ==
  IF t.col_ptr = 0 /\ t.row + 1 < numRows THEN [row |-> t.row + 1, col_ptr |-> 0]
  ELSE LET c == IF t.col_ptr = 0 THEN numRows - 2 ELSE t.col_ptr - 1 IN
       IF c < 1 THEN [row |-> 0, col_ptr |-> 0] ELSE [row |-> c, col_ptr |-> c]

convert(s, numRows) ==
  LET tile[i \in 1 .. Len(s)] ==
        IF i = 1 THEN [row |-> 0, col_ptr |-> 0] ELSE nextTile(tile[i - 1], numRows)
      zz_tile(r) == [i \in 1 .. Len(s) |-> IF tile[i].row = r THEN s[i] ELSE 0]   \* 0 is ' '
  IN IF numRows = 1 THEN s
     ELSE SelectSeq(FlattenSeq([r \in 1 .. numRows |-> zz_tile(r - 1)]), LAMBDA c : c # 0)

(* valid-sudoku: no letter twice in a row, in a column, or in the square that starts
   at a cell with i % 3 = 0 and j % 3 = 0; 0 is '.' *)
Twice(board, cells) == \E a, b \in cells : a # b /\ board[a] # 0 /\ board[a] = board[b]

Square(i, j) == (i .. i + 2) \X (j .. j + 2)

isValidSudoku(board) ==
  \A i \in 0 .. 8 :
    /\ ~Twice(board, {i} \X (0 .. 8)) /\ ~Twice(board, (0 .. 8) \X {i})
    /\ \A j \in 0 .. 8 : i % 3 = 0 /\ j % 3 = 0 => ~Twice(board, Square(i, j))

-----------------------------------------------------------------------------
(* common.c: how a line of input becomes the numbers given to a Solution *)
normalize_line(line) == [i \in DOMAIN line |-> IF line[i] \in {"[", "]", ",", "q"} THEN " " ELSE line[i]]

ltrim(str) == LET kept == {i \in DOMAIN str : str[i] # " "}
              IN IF kept = {} THEN <<>> ELSE SubSeq(str, Min(kept), Len(str))
rtrim(str) == LET kept == {i \in DOMAIN str : str[i] # " "}
              IN IF kept = {} THEN <<>> ELSE SubSeq(str, 1, Max(kept))

split_string2(str) ==
  LET starts == {i \in DOMAIN str : str[i] # " " /\ (i = 1 \/ str[i - 1] = " ")}
      end(i) == Max({j \in i .. Len(str) : \A k \in i .. j : str[k] # " "})
      order == SetToSortSeq(starts, <)
  IN [n \in 1 .. Len(order) |-> SubSeq(str, order[n], end(order[n]))]

(* a Solution's main() trims and normalizes a line, and splits it *)
ReadArray(line) == split_string2(ltrim(rtrim(normalize_line(line))))

-----------------------------------------------------------------------------
(* The inputs of each problem *)
Inputs(problem) ==
  CASE problem = "array"   -> {<<a, b>> : a \in Upto(Digits, SlLength), b \in Digits}
    [] problem = "pair"    -> {<<a, b>> : a \in Upto(Digits, SlLength - 2), b \in Upto(Digits, SlLength - 2)}
    [] problem = "text"    -> {<<a, n>> : a \in Upto(Digits, SlLength), n \in 1 .. SlLength}
    [] problem = "number"  -> {<<x>> : x \in (0 .. 130) \cup (990 .. 1010)}
    [] problem = "lists"   -> {<<a, b>> : a, b \in Upto({0, 5, 9}, SlLength - 2) \ {<<>>}}
    [] problem = "board"   -> {<<[c \in (0 .. 8) \X (0 .. 8) |-> IF c = p \/ c = q THEN 1 ELSE 0]>> :
                                 p \in (0 .. 4) \X (0 .. 4), q \in (2 .. 8) \X (2 .. 8)}
    [] problem = "line"    -> {<<a, sep>> : a \in Upto({"1", "2"}, SlLength - 2),
                                            sep \in {<<",">>, <<" ">>, <<",", " ">>}}

Problems == {"array", "pair", "text", "number", "lists", "board", "line"}
SlInit == slProblem \in Problems /\ slInput = <<>> /\ slDone = FALSE
Given == /\ ~slDone /\ slDone' = TRUE /\ \E in \in Inputs(slProblem) : slInput' = in
         /\ UNCHANGED slProblem
SlNext == Given
SlSpec == SlInit /\ [][SlNext]_slVars

Is(problem) == slDone /\ slProblem = problem
Count(s, v) == Cardinality({i \in DOMAIN s : s[i] = v})
Sum_(s) == FoldLeft(+, 0, s)
Value(l) == FoldRight(LAMBDA d, v : d + 10 * v, l, 0)
Line(a, sep) == <<"[">> \o FlattenSeq([i \in 1 .. Len(a) |-> IF i = 1 THEN <<a[i]>> ELSE sep \o <<a[i]>>]) \o <<"]">>

(* removeElement keeps the other values in their order; twoSum gives two places that
   add up to the target; merge of two sorted halves is sorted and loses nothing;
   canConstruct holds when the magazine has every letter often enough. *)
SlArraysRight ==
  /\ Is("array") =>
       LET nums == slInput[1]  val == slInput[2]  r == removeElement(nums, val) IN
       /\ SubSeq(r.nums, 1, r.ans) = SelectSeq(nums, LAMBDA x : x # val)
       /\ (\E i, j \in DOMAIN nums : i < j /\ nums[i] + nums[j] = val)
            => LET p == twoSum(nums, val) IN p[1] # p[2] /\ nums[p[1]] + nums[p[2]] = val
  /\ Is("pair") =>
       LET a == slInput[1]  b == slInput[2]
           m == merge(a \o [i \in 1 .. Len(b) |-> 0], Len(a), b, Len(b)) IN
       /\ canConstruct(a, b) = \A c \in Digits : Count(a, c) <= Count(b, c)
       /\ \A c \in Digits : Count(m, c) = Count(a, c) + Count(b, c)
       /\ b # <<>> => \A i \in 1 .. Len(m) - 1 : m[i] <= m[i + 1]

(* The two isPalindrome methods accept exactly what reads the same backwards. *)
SlPalindromesRight ==
  /\ Is("text") => LET s == SelectSeq(slInput[1], LAMBDA c : c # 0) IN
                   stringIsPalindrome(slInput[1]) = (s = Reverse(s))
  /\ Is("number") => numberIsPalindrome(slInput[1]) = (DigitsOf(slInput[1]) = Reverse(DigitsOf(slInput[1])))

(* The two sliding windows find the longest stretch without a repetition and the
   shortest one whose sum reaches the target. *)
SlWindowsRight ==
  Is("text") =>
    LET s == slInput[1]
        stretches == {SubSeq(s, i, j) : i \in DOMAIN s, j \in DOMAIN s}
        reach == {w \in stretches : Sum_(w) >= slInput[2]}
    IN /\ lengthOfLongestSubstring(s) = Max({0} \cup {Len(w) : w \in {v \in stretches : IsInjective(v)}})
       /\ minSubArrayLen(slInput[2], s) = IF reach = {} THEN 0 ELSE Min({Len(w) : w \in reach})

(* addTwoNumbers returns the digits of the sum, least first, the last carry included. *)
SlAdditionRight ==
  Is("lists") => LET r == addTwoNumbers(slInput[1], slInput[2]) IN
                 /\ Value(r) = Value(slInput[1]) + Value(slInput[2])
                 /\ \A i \in DOMAIN r : r[i] \in 0 .. 9

(* convert reads the zigzag row by row: letter i is in row k or p - k, where
   p = 2 * numRows - 2 and k = i % p. *)
SlZigzagRight ==
  Is("text") =>
    LET s == slInput[1]  n == slInput[2]  p == 2 * n - 2
        row(i) == LET k == (i - 1) % p IN Min({k, p - k})
        order == SetToSortSeq(DOMAIN s, LAMBDA i, j : row(i) < row(j) \/ (row(i) = row(j) /\ i < j))
    IN 0 \notin Range(s) /\ n > 1 => convert(s, n) = [i \in DOMAIN s |-> s[order[i]]]

(* isValidSudoku refuses a board exactly when two equal entries share a row, a
   column or one of the nine squares. *)
SlSudokuRight ==
  Is("board") =>
    LET b == slInput[1]
        filled == {c \in DOMAIN b : b[c] # 0}
    IN isValidSudoku(b) =
         \A c, d \in filled : c # d => /\ c[1] # d[1] /\ c[2] # d[2]
                                       /\ <<c[1] \div 3, c[2] \div 3>> # <<d[1] \div 3, d[2] \div 3>>

(* A bracketed list, however its numbers are separated, is split into its numbers. *)
SlInputParsed ==
  Is("line") => ReadArray(Line(slInput[1], slInput[2])) = [i \in DOMAIN slInput[1] |-> <<slInput[1][i]>>]

(* Every exercise computes what its definition says, for all bounded inputs. *)
SolutionsRight ==
  /\ SlArraysRight /\ SlPalindromesRight /\ SlWindowsRight /\ SlAdditionRight
  /\ SlZigzagRight /\ SlSudokuRight /\ SlInputParsed
==============================================================================
