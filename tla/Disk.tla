-------------------------------- MODULE Disk --------------------------------
(***************************************************************************)
(* The disk manager of the disk package (internal/piece/strategy_test.go  *)
(* from line 781): Initialize, which creates every file of the torrent at *)
(* its length, and the mapping of a piece onto the files in WritePiece,    *)
(* writeMultiFile, ReadPiece, readMultiFile and ReadBlock.                 *)
(*                                                                         *)
(* The files are a function from a path (the torrent's name and the path  *)
(* components, as filepath.Join builds it from the download directory) to *)
(* the file's bytes; a byte is an integer, and Zero is what Truncate and  *)
(* an unread buffer hold.  I/O errors of the operating system are left    *)
(* out: PieceStore models the outcome of a failing WritePiece.            *)
(***************************************************************************)
EXTENDS Integers, Sequences, TLC

LOCAL INSTANCE SequencesExt

MI == INSTANCE Metainfo

Zero == 0

\* The path of a file of the torrent: downloadDir/name/path...
FilePath(t, fi) == <<t.name>> \o fi.path

\* File.Truncate(size): the bytes up to size kept, zeros past the old end.
Truncate(f, size) == [k \in 1..size |-> IF k =< Len(f) THEN f[k] ELSE Zero]

\* File.WriteAt(data, off): the bytes at off.. replaced, the file extended
\* (with zeros up to off) when it is shorter.
WriteAt(f, data, off) ==
    LET end == IF off + Len(data) > Len(f) THEN off + Len(data) ELSE Len(f)
    IN [k \in 1..end |-> IF off < k /\ k =< off + Len(data) THEN data[k - off]
                        ELSE IF k =< Len(f) THEN f[k] ELSE Zero]

\* File.ReadAt into a zeroed buffer of n bytes, io.EOF ignored: the bytes
\* at off.., zeros past the end of the file.
ReadAt(f, n, off) == [k \in 1..n |-> IF off + k =< Len(f) THEN f[off + k] ELSE Zero]

\* createFile: OpenFile with O_CREATE and no O_TRUNC, then Truncate(size);
\* a file already open under the same path is the same file.
CreateFile(files, path, size) ==
    (path :> Truncate(IF path \in DOMAIN files THEN files[path] ELSE <<>>, size))
    @@ files

\* Initialize on an empty download directory: the single file at
\* Info.Length, or every entry of Info.Files in order.
Initialize(t) ==
    IF MI!IsSingleFile(t)
    THEN CreateFile(<<>>, <<t.name>>, t.length)
    ELSE FoldLeft(LAMBDA files, fi : CreateFile(files, FilePath(t, fi), fi.length),
                  <<>>, t.files)

\* writeMultiFile skipping only the files that end before the offset: a
\* piece starting at a file's end is sent to that file.
RECURSIVE WriteSpansSkipBefore(_, _, _, _, _, _)
WriteSpansSkipBefore(t, fl, offset, len, cur, dOff) ==
    IF fl = <<>> THEN <<>>
    ELSE LET fi == Head(fl)
             fileEnd == cur + fi.length
             start == IF offset > cur THEN offset - cur ELSE 0
             n == IF start + (len - dOff) > fi.length THEN fi.length - start
                  ELSE len - dOff
             span == [path |-> FilePath(t, fi), start |-> start, from |-> dOff, n |-> n]
         IN IF offset > fileEnd THEN WriteSpansSkipBefore(t, Tail(fl), offset, len, fileEnd, dOff)
            ELSE IF n =< 0 THEN <<>>
            ELSE IF dOff + n >= len THEN <<span>>
            ELSE <<span>> \o WriteSpansSkipBefore(t, Tail(fl), offset, len, fileEnd, dOff + n)

\* writeMultiFile's loop from the file list fl on, at file offset cur with
\* dOff bytes of data written: the spans [path, start, from, n] it writes,
\* n bytes of data from from+1 to the file at start, in order.
RECURSIVE WriteSpans(_, _, _, _, _, _)
WriteSpans(t, fl, offset, len, cur, dOff) ==
    IF fl = <<>> THEN <<>>
    ELSE LET fi == Head(fl)
             fileEnd == cur + fi.length
             start == IF offset > cur THEN offset - cur ELSE 0
             n == IF start + (len - dOff) > fi.length THEN fi.length - start
                  ELSE len - dOff
             span == [path |-> FilePath(t, fi), start |-> start, from |-> dOff, n |-> n]
         IN IF offset >= fileEnd THEN WriteSpans(t, Tail(fl), offset, len, fileEnd, dOff)
            ELSE IF n =< 0 THEN <<>>
            ELSE IF dOff + n >= len THEN <<span>>
            ELSE <<span>> \o WriteSpans(t, Tail(fl), offset, len, fileEnd, dOff + n)

\* readMultiFile's loop: the same walk over the files.
RECURSIVE ReadSpans(_, _, _, _, _, _)
ReadSpans(t, fl, offset, len, cur, dOff) ==
    IF fl = <<>> THEN <<>>
    ELSE LET fi == Head(fl)
             fileEnd == cur + fi.length
             start == IF offset > cur THEN offset - cur ELSE 0
             n == IF start + (len - dOff) > fi.length THEN fi.length - start
                  ELSE len - dOff
             span == [path |-> FilePath(t, fi), start |-> start, from |-> dOff, n |-> n]
         IN IF offset >= fileEnd THEN ReadSpans(t, Tail(fl), offset, len, fileEnd, dOff)
            ELSE IF n =< 0 THEN <<>>
            ELSE IF dOff + n >= len THEN <<span>>
            ELSE <<span>> \o ReadSpans(t, Tail(fl), offset, len, fileEnd, dOff + n)

\* The spans in order: each WriteAt of its slice of data, or "file not
\* open" at the first path Initialize did not open, the earlier spans
\* already written.
ApplyWrites(files, spans, data) ==
    FoldLeft(LAMBDA r, s :
               IF ~r.ok THEN r
               ELSE IF s.path \notin DOMAIN r.files THEN [r EXCEPT !.ok = FALSE]
               ELSE [r EXCEPT !.files[s.path] =
                        WriteAt(@, SubSeq(data, s.from + 1, s.from + s.n), s.start)],
             [ok |-> TRUE, files |-> files], spans)

\* WritePiece: at index * PieceLength, into the single file, or across the
\* files by writeMultiFile.
WritePiece(t, files, index, data) ==
    LET offset == index * t.pieceLength
    IN IF MI!IsSingleFile(t)
       THEN IF <<t.name>> \notin DOMAIN files THEN [ok |-> FALSE, files |-> files]
            ELSE [ok |-> TRUE,
                  files |-> [files EXCEPT ![<<t.name>>] = WriteAt(@, data, offset)]]
       ELSE ApplyWrites(files, WriteSpans(t, t.files, offset, Len(data), 0, 0), data)

\* ReadPiece: PieceSize(index) bytes at index * PieceLength, from the
\* single file or through readMultiFile's spans into a zeroed buffer.
ReadPiece(t, files, index) ==
    LET offset == index * t.pieceLength
        size == MI!PieceSize(t, index)
        buf == [k \in 1..size |-> Zero]
        fill(r, s) ==
            IF ~r.ok THEN r
            ELSE IF s.path \notin DOMAIN files THEN [ok |-> FALSE]
            ELSE LET got == ReadAt(files[s.path], s.n, s.start)
                 IN [r EXCEPT !.data = [k \in 1..size |->
                        IF s.from < k /\ k =< s.from + s.n THEN got[k - s.from] ELSE @[k]]]
    IN IF MI!IsSingleFile(t)
       THEN IF <<t.name>> \notin DOMAIN files THEN [ok |-> FALSE]
            ELSE [ok |-> TRUE, data |-> ReadAt(files[<<t.name>>], size, offset)]
       ELSE FoldLeft(fill, [ok |-> TRUE, data |-> buf],
                     ReadSpans(t, t.files, offset, size, 0, 0))

\* ReadBlock: ReadPiece, then the bytes begin..begin+length cut at the end
\* of the piece; a begin outside the piece is an error.
ReadBlock(t, files, index, begin, length) ==
    LET r == ReadPiece(t, files, index)
    IN IF ~r.ok THEN r
       ELSE IF begin < 0 \/ begin >= Len(r.data) THEN [ok |-> FALSE]
       ELSE [ok |-> TRUE,
             data |-> SubSeq(r.data, begin + 1,
                             IF begin + length > Len(r.data) THEN Len(r.data)
                             ELSE begin + length)]
=============================================================================
