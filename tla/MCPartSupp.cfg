CONSTANTS
  Scales <- MCScales
SPECIFICATION PartsSpec
INVARIANTS SuppKeysExist SuppKeysDistinct
