------------------------------ MODULE MCDriver ------------------------------
\* A source in a directory, one without an extension, or the standard input; with
\* and without each option.
EXTENDS Driver

AllCommandLines ==
  [source : {"", "dir/hello.pas", "../hello", "hello"}, assembly : {"", "out.s"}, program : {"", "bin/hello"},
   stdout : BOOLEAN, link : BOOLEAN]

AllTexts == {"program", "ill-formed", "huge literal"}
=============================================================================
