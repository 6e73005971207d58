SPECIFICATION Spec
CONSTANTS
  BLOCK_SIZE = 2
  CmacCipher <- PairCipher
  CmacKeys <- PairKeys
  Messages <- PairMessages
  CcmCipher <- MixCipher
  CcmKeys <- MixKeys
  Nonces <- SomeNonces
  Additions <- SomeAdditions
  Texts <- SomeTexts
  TagLens = {3, 4, 16}
  Changes = {1}
  AesKeys <- SomeAesKeys
  AesMessages <- SomeAesMessages
  Devices <- Slots
  WORD_BITS = 4
  BYTE_BITS = 2
  num_words = 2
  Moduli <- SomeModuli
  Numbers <- SomeNumbers
INVARIANTS MacIsCmac IsCcm ChangeNoticed IsAes ScansBack WordsCompute CurveComputes
CHECK_DEADLOCK FALSE
