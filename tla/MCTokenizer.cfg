SPECIFICATION Spec
CONSTANT Sources <- MCSources
INVARIANTS TypeOK TokensAsDelimited SourceCovered LinesCounted TrimsAsMarked RawTokens RawBodyTaken
PROPERTY Forward
