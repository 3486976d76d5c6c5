-------------------------------- MODULE Codecs --------------------------------
(***************************************************************************)
(* The small conversions the programs of the repository are built on:      *)
(* bytes to hex digits and back (hex, crypt-sym, crypt-asym), the padding   *)
(* of the Go block cipher, the unescaping of a URI (nat-server), the IP     *)
(* checksum of the packet ring client, the repackaging of video units       *)
(* (webrtc), and the cutting of a text into lines (grep, stream).  Each is  *)
(* a function of its input; characters are their ASCII codes.               *)
(***************************************************************************)
EXTENDS Integers, Sequences, FiniteSets, SequencesExt, FiniteSetsExt

CONSTANTS
  CdBytes,          \* the bytes that occur in inputs
  CdWords,          \* the 16-bit words that occur in a packet
  CdLength,         \* the longest input
  CdBlockSize,      \* aes.BlockSize
  MAX_STDINPUT_WIDTH

VARIABLES cdCode, cdInput, cdDone
cdVars == <<cdCode, cdInput, cdDone>>

CdUpto(S, n) == UNION {[1 .. k -> S] : k \in 0 .. n}
NL == 10
SP == 32
PLUS == 43
PERCENT == 37
Letters == {NL, SP, 97, 98}

-----------------------------------------------------------------------------
(* sprintf "%X" of one nibble, and what sscanf "%2x" makes of two of them *)
HexDigit(n) == IF n < 10 THEN 48 + n ELSE 55 + n
NibbleOf(c) == IF c <= 57 THEN c - 48 ELSE IF c <= 70 THEN c - 55 ELSE c - 87

char2hex(bytearray) ==
  FlattenSeq([i \in DOMAIN bytearray |->
    <<HexDigit(bytearray[i] \div 16), HexDigit(bytearray[i] % 16)>>])

hex2char(hexarray) ==
  [i \in 1 .. Len(hexarray) \div 2 |->
    16 * NibbleOf(hexarray[2 * i - 1]) + NibbleOf(hexarray[2 * i])]

bin2hex(bytearray) == char2hex(bytearray)
hex2bin(hexarray) == hex2char(hexarray)
asym_char2hex(bytearray) == char2hex(bytearray)
asym_hex2char(hexarray) == hex2char(hexarray)

-----------------------------------------------------------------------------
(* The Go CBC pair.  The cipher is external: it maps blocks to blocks under the IV,
   so what it seals is kept as [iv, blocks], and only whole blocks can be sealed. *)
PKCS5Padding(ciphertext) ==
  LET padding == CdBlockSize - (Len(ciphertext) % CdBlockSize)
  IN ciphertext \o [i \in 1 .. padding |-> padding]

EncryptAES256CBC(plaintext) ==
  LET bPlaintext == PKCS5Padding(plaintext)
  IN [iv |-> CdBlockSize, blocks |-> bPlaintext]

(* a buffer of twice the length is returned as a whole: padding and zeros stay in it *)
DecryptAES256CBC(ciphertext) ==
  IF Len(ciphertext.blocks) % CdBlockSize # 0 THEN <<"err">>
  ELSE ciphertext.blocks \o [i \in 1 .. Len(ciphertext.blocks) |-> 0]

-----------------------------------------------------------------------------
(* nat_httpd.c: everything up to the first % is left as it is, + included *)
IsSpace(c) == c \in {NL, SP}

Nibble(c) == (c % 16) + (IF c > 57 THEN 9 ELSE 0)

uri_unescape(uri) ==
  LET n == Len(uri)
      ends == {i \in 1 .. n : IsSpace(uri[i]) \/ uri[i] = PERCENT}
      first == IF ends = {} THEN n + 1 ELSE Min(ends)
      read[i \in 1 .. n + 1] ==
        IF i > n \/ IsSpace(uri[i]) THEN <<>>
        ELSE IF uri[i] = PLUS THEN <<SP>> \o read[i + 1]
        ELSE IF uri[i] = PERCENT /\ i + 2 <= n
             THEN <<(Nibble(uri[i + 1]) * 16 + Nibble(uri[i + 2])) % 256>> \o read[i + 3]
        ELSE <<uri[i]>> \o read[i + 1]
  IN SubSeq(uri, 1, first - 1) \o read[first]

-----------------------------------------------------------------------------
(* The one's complement checksum: sum is an unsigned long, two carries are folded in *)
ipcsum(buf) ==
  LET sum == FoldSeq(LAMBDA w, s : w + s, 0, buf)
      folded == (sum \div 65536) + (sum % 65536)
      again == folded + (folded \div 65536)
  IN 65535 - (again % 65536)

-----------------------------------------------------------------------------
(* rtmp.go: units with a length field of 4 bytes become units behind 00 00 00 01.  The
   payloads here are short, so only the last byte of a length field is not 0. *)
RTP_HEADER_LENGTH_FIELD == 4
StartCode == <<0, 0, 0, 1>>

OnVideo(videoBuffer) ==
  LET n == Len(videoBuffer)
      unit[offset \in 0 .. n] ==
        IF offset >= n THEN <<>>
        ELSE LET bufferLength == videoBuffer[offset + RTP_HEADER_LENGTH_FIELD]
                 at == offset + RTP_HEADER_LENGTH_FIELD
             IN IF offset + bufferLength >= n THEN <<>>
                ELSE StartCode \o SubSeq(videoBuffer, at + 1, at + bufferLength) \o unit[at + bufferLength]
  IN unit[0]

-----------------------------------------------------------------------------
(* Lines: fgets hands over pieces that end at a newline or when the buffer is full,
   strcat joins them, strsep cuts at every newline (an empty line is a line). *)
fgets(input) ==
  LET ends == {i \in DOMAIN input : input[i] = NL \/ i = Len(input) \/ i = MAX_STDINPUT_WIDTH - 1}
  IN SubSeq(input, 1, Min(ends))

Pieces(input) ==
  LET from[i \in 1 .. Len(input) + 1] ==
        IF i > Len(input) THEN <<>>
        ELSE LET piece == fgets(SubSeq(input, i, Len(input))) IN <<piece>> \o from[i + Len(piece)]
  IN from[1]

strsep(text) ==
  LET cuts == SetToSortSeq({i \in DOMAIN text : text[i] = NL}, <)
      At(k) == IF k = 0 THEN 0 ELSE IF k > Len(cuts) THEN Len(text) + 1 ELSE cuts[k]
  IN [k \in 1 .. Len(cuts) + 1 |-> SubSeq(text, At(k - 1) + 1, At(k) - 1)]

(* strtok never returns an empty line *)
strtok(text) == SelectSeq(strsep(text), LAMBDA line : line # <<>>)

BITGREP_MapStdinTo2d_PieceIsLine(input) ==
  [k \in DOMAIN Pieces(input) |-> SelectSeq(Pieces(input)[k], LAMBDA c : c # NL)]

BITGREP_MapStdinTo2d(input) == strsep(FlattenSeq(Pieces(input)))

strstr(line, target) ==
  LET starts == {i \in 1 .. Len(line) + 1 : i + Len(target) - 1 <= Len(line)
                                            /\ SubSeq(line, i, i + Len(target) - 1) = target}
  IN IF starts = {} THEN 0 ELSE Min(starts)

(* [found_index, buff_found]: the row and its rest from the match on *)
BITGREP_PopulateSearchResult(target, rows) ==
  LET hits == SelectSeq([i \in DOMAIN rows |-> i], LAMBDA i : strstr(rows[i], target) > 0)
  IN [k \in DOMAIN hits |->
       [found_index |-> hits[k] - 1,
        buff_found |-> SubSeq(rows[hits[k]], strstr(rows[hits[k]], target), Len(rows[hits[k]]))]]

(* stream: a newline is put behind the file; row_num newlines make room for the rows *)
StreamTo2dInterface(file) == Append(file, NL)

Print2dBufferFromStream(source) ==
  [row_num |-> Cardinality({i \in DOMAIN source : source[i] = NL}), td_buff |-> strtok(source)]

-----------------------------------------------------------------------------
(* Inputs *)
Escapable == CdUpto(CdBytes \ {0}, CdLength)
Unit(payload) == <<0, 0, 0, Len(payload)>> \o payload
Codes == {"hex", "cbc", "uri", "csum", "video", "lines"}
CdInputs(c) == CASE c = "hex" -> CdUpto(CdBytes, CdLength)
                 [] c = "cbc" -> CdUpto(CdBytes, CdLength)
                 [] c = "uri" -> Escapable
                 [] c = "csum" -> CdUpto(CdWords, CdLength + 2)
                 [] c = "video" -> CdUpto(CdUpto({0, 4}, 2), CdLength)
                 [] c = "lines" -> CdUpto(Letters, CdLength + 1)

CdInit == cdCode \in Codes /\ cdInput \in CdInputs(cdCode) /\ cdDone = FALSE
Convert == ~cdDone /\ cdDone' = TRUE /\ UNCHANGED <<cdCode, cdInput>>
CdNext == Convert
CdSpec == CdInit /\ [][CdNext]_cdVars

-----------------------------------------------------------------------------
CodeIs(c) == cdDone /\ cdCode = c

(* What char2hex() prints is read back by hex2char() byte for byte, small bytes with
   their leading zero included, for each of the three copies of the pair
   (hex/hex.c, crypt-sym/sym.c, crypt-asym/asym.c). *)
CdHexRoundTrip ==
  CodeIs("hex") => /\ hex2char(char2hex(cdInput)) = cdInput
                   /\ hex2bin(bin2hex(cdInput)) = cdInput
                   /\ asym_hex2char(asym_char2hex(cdInput)) = cdInput

(* PKCS5Padding() always adds between 1 and a block of bytes, each saying how many
   were added, so EncryptAES256CBC() can seal every text and a reader can tell the text
   from the padding in what DecryptAES256CBC() returns. *)
CdPaddingTold ==
  CodeIs("cbc") =>
    LET plain == DecryptAES256CBC(EncryptAES256CBC(cdInput))
        sealed == Len(plain) \div 2
    IN /\ plain # <<"err">>
       /\ SubSeq(plain, 1, sealed - plain[sealed]) = cdInput

(* The reference encoding of a URI: bytes that have a meaning are written as % and two
   digits, in upper or lower case. *)
Escape(text, lower) ==
  LET Digit(n) == IF n < 10 THEN 48 + n ELSE (IF lower THEN 87 ELSE 55) + n
  IN FlattenSeq([i \in DOMAIN text |->
       IF text[i] \in 97 .. 122 THEN <<text[i]>>
       ELSE <<PERCENT, Digit(text[i] \div 16), Digit(text[i] % 16)>>])

(* uri_unescape() undoes the escaping of any text, written with digits of either case,
   and stops at the space behind the URI in the request line. *)
CdUriUnescaped ==
  CodeIs("uri") =>
    \A lower \in BOOLEAN : uri_unescape(Escape(cdInput, lower) \o <<SP, 97>>) = cdInput

(* A packet that carries the checksum ipcsum() computed for it sums up to all ones, the
   test of every receiver, however many carries the words produce. *)
CdChecksumVerifies ==
  CodeIs("csum") =>
    LET Fold(x) == (x \div 65536) + (x % 65536)
    IN Fold(Fold(Fold(ipcsum(cdInput) + FoldSeq(LAMBDA w, s : w + s, 0, cdInput)))) = 65535

(* OnVideo() passes every unit of a whole frame on, the last one and empty ones included,
   behind a start code. *)
CdAllUnitsPassed ==
  CodeIs("video") =>
    OnVideo(FlattenSeq([k \in DOMAIN cdInput |-> Unit(cdInput[k])]))
      = FlattenSeq([k \in DOMAIN cdInput |-> StartCode \o cdInput[k]])

(* grep: a line longer than the read buffer is still one row: the rows joined with
   newlines are the input, and the result names, in order, exactly the rows that contain
   the target, each shown from its first occurrence on. *)
CdGrepFinds ==
  CodeIs("lines") =>
    LET rows == BITGREP_MapStdinTo2d(cdInput)
        joined == FlattenSeq([k \in DOMAIN rows |-> IF k = 1 THEN rows[k] ELSE <<NL>> \o rows[k]])
    IN /\ joined = cdInput
       /\ \A k \in DOMAIN rows : NL \notin Range(rows[k])
       /\ \A target \in CdUpto({97, 98}, 2) \ {<<>>} :
            LET found == BITGREP_PopulateSearchResult(target, rows) IN
            /\ \A k \in 2 .. Len(found) : found[k - 1].found_index < found[k].found_index
            /\ \A i \in DOMAIN rows :
                 (\E k \in DOMAIN found : found[k].found_index = i - 1)
                   <=> (\E a, b \in 1 .. Len(rows[i]) : SubSeq(rows[i], a, b) = target)
            /\ \A k \in DOMAIN found : /\ IsPrefix(target, found[k].buff_found)
                                       /\ IsSuffix(found[k].buff_found, rows[found[k].found_index + 1])

(* stream: the newlines counted before the cutting leave room for every row cut, so no
   row is stored behind td_buff. *)
CdRowsFit ==
  CodeIs("lines") =>
    LET cut == Print2dBufferFromStream(StreamTo2dInterface(cdInput))
    IN /\ Len(cut.td_buff) <= cut.row_num
       /\ FlattenSeq(cut.td_buff) = SelectSeq(cdInput, LAMBDA c : c # NL)

(* Every conversion does what its counterpart or its callers rely on, for all bounded inputs. *)
CodecsRight ==
  /\ CdHexRoundTrip /\ CdPaddingTold /\ CdUriUnescaped /\ CdChecksumVerifies
  /\ CdAllUnitsPassed /\ CdGrepFinds /\ CdRowsFit
=============================================================================
