SPECIFICATION MapperSpec
CONSTANTS
  numerology = 0
  extended_prefix = FALSE
  fft_size = 4
  NormalCp = 2
  LongCp = 3
  ExtendedCp = 3
  NormalSymbol = 6
  LongSymbol = 8
  ExtendedSymbol = 7
  BufferSizes <- Buffers
  MaxSamples = 900
  Durations <- AllDurations
  coreset_ofdm_symbol_start = 1
INVARIANTS SymbolsOnGrid NumbersOnGrid EveryCoresetPassed ThrowsOnlyOnTinyBuffer
CHECK_DEADLOCK FALSE
